---- MODULE Spec2Model ----
(***************************************************************************)
(* A model of the jsjs bytecode compiler (src/src/compiler.ts) and of the  *)
(* stack virtual machine (src/src/virtual-machine.ts).                     *)
(*                                                                         *)
(* Strings (identifier names, label names, string values) are sequences of *)
(* 16-bit code units; the byte code is a sequence of bytes, exactly as     *)
(* toNumberArray produces it; run() is one action per dispatched opcode.   *)
(***************************************************************************)
EXTENDS Integers, Sequences, FiniteSets, TLC

(***************************************************************************)
(* OpCode (src/src/constrains.ts).                                         *)
(***************************************************************************)
NOP == 0
UNDEF == 1
NULL == 2
OBJ == 3
ARR == 4
TRUE_ == 5
FALSE_ == 6
NUM == 7
ADDR == 8
STR == 9
POP == 10
TOP == 13
TOP2 == 14
VAR == 16
LOAD == 17
OUT == 18
JUMP == 32
JUMPIF == 33
JUMPNOT == 34
FUNC == 48
CALL == 49
NEW_ == 50
RET == 51
GET == 64
SET == 65
IN_ == 67
DELETE == 68
EQ == 80
NEQ == 81
SEQ == 82
SNEQ == 83
LT == 84
LTE == 85
GT == 86
GTE == 87
ADD == 96
SUB == 97
MUL == 98
EXP == 99
DIV == 100
MOD == 101
BNOT == 112
BOR == 113
BXOR == 114
BAND == 115
LSHIFT == 115
RSHIFT == 117
URSHIFT == 118
OR == 128
AND == 129
NOT == 130
INSOF == 144
TYPEOF == 145

(***************************************************************************)
(* String literals of the source, as code-unit sequences.                  *)
(***************************************************************************)
S_this == <<116, 104, 105, 115>>  \* "this"
S_undefined == <<117, 110, 100, 101, 102, 105, 110, 101, 100>>  \* "undefined"
S_null == <<110, 117, 108, 108>>  \* "null"
S_main == <<109, 97, 105, 110>>  \* "main"
S_anonymous == <<97, 110, 111, 110, 121, 109, 111, 117, 115>>  \* "anonymous"
S_cond_end == <<99, 111, 110, 100, 95, 101, 110, 100>>  \* "cond_end"
S_cond_alt == <<99, 111, 110, 100, 95, 97, 108, 116>>  \* "cond_alt"
S_switch_case == <<115, 119, 105, 116, 99, 104, 95, 99, 97, 115, 101>>  \* "switch_case"
S_switch_default == <<115, 119, 105, 116, 99, 104, 95, 100, 101, 102, 97, 117, 108, 116>>  \* "switch_default"
S_switch_end == <<115, 119, 105, 116, 99, 104, 95, 101, 110, 100>>  \* "switch_end"
S_while_start == <<119, 104, 105, 108, 101, 95, 115, 116, 97, 114, 116>>  \* "while_start"
S_while_end == <<119, 104, 105, 108, 101, 95, 101, 110, 100>>  \* "while_end"
S_do_while_start == <<100, 111, 95, 119, 104, 105, 108, 101, 95, 115, 116, 97, 114, 116>>  \* "do_while_start"
S_do_while_test == <<100, 111, 95, 119, 104, 105, 108, 101, 95, 116, 101, 115, 116>>  \* "do_while_test"
S_do_while_end == <<100, 111, 95, 119, 104, 105, 108, 101, 95, 101, 110, 100>>  \* "do_while_end"
S_for_start == <<102, 111, 114, 95, 115, 116, 97, 114, 116>>  \* "for_start"
S_for_update == <<102, 111, 114, 95, 117, 112, 100, 97, 116, 101>>  \* "for_update"
S_for_end == <<102, 111, 114, 95, 101, 110, 100>>  \* "for_end"
S_logic_end == <<108, 111, 103, 105, 99, 95, 101, 110, 100>>  \* "logic_end"

(***************************************************************************)
(* Number.prototype.toString(16) of a uid (UniqueId.get) and the decimal   *)
(* text of a template literal `${i}`.                                      *)
(***************************************************************************)
Digit(d) == IF d < 10 THEN 48 + d ELSE 87 + d

RECURSIVE Radix(_, _)
Radix(n, base) ==
  IF n < base THEN <<Digit(n)>>
  ELSE Radix(n \div base, base) \o <<Digit(n % base)>>

Hex(n) == Radix(n, 16)

Dec(n) == Radix(n, 10)

(***************************************************************************)
(* Values.  A value is a record [t, v]: the tag t decides what v holds.    *)
(* v is always a tuple of integers:                                        *)
(*   undefined, null      v = <<>>                                         *)
(*   boolean              v = <<1>> (true) or <<0>> (false)                *)
(*   number               v = <<n>>, n an integer;  NaN is the tag "NaN"   *)
(*   string               v the sequence of code units                     *)
(*   object, array        v = <<r>>, r a reference into the heap           *)
(*   function             v = <<r>>, r a reference into the closure table  *)
(***************************************************************************)
Undefined == [t |-> "undefined", v |-> <<>>]
Null == [t |-> "null", v |-> <<>>]
Bool(b) == [t |-> "boolean", v |-> <<IF b THEN 1 ELSE 0>>]
Num(n) == [t |-> "number", v |-> <<n>>]
NaN == [t |-> "NaN", v |-> <<>>]
Str(s) == [t |-> "string", v |-> s]
Ref(r) == [t |-> "object", v |-> <<r>>]
Fun(r) == [t |-> "function", v |-> <<r>>]

(***************************************************************************)
(* Bounds of the model.                                                    *)
(***************************************************************************)
\* literals of the generated programs range over 0..MaxLit
MaxLit == 2
\* run() is followed for at most MaxSteps dispatched opcodes
MaxSteps == 300

(***************************************************************************)
(* DataView.setFloat64 / getFloat64 (big endian) on the integers the model *)
(* handles: sign, 11 bits of exponent, and the top 12 bits of the mantissa *)
(* (the other 40 bits are zero for an integer below 2^13).                 *)
(***************************************************************************)
RECURSIVE Pow2(_)
Pow2(e) == IF e = 0 THEN 1 ELSE 2 * Pow2(e - 1)

RECURSIVE Log2(_)
Log2(n) == IF n < 2 THEN 0 ELSE 1 + Log2(n \div 2)

Float64Bytes(nu) ==
  LET a == IF nu < 0 THEN 0 - nu ELSE nu
      sign == IF nu < 0 THEN 128 ELSE 0
      e == Log2(a)
      ex == 1023 + e
      m12 == (a - Pow2(e)) * Pow2(12 - e)
  IN  IF a = 0 THEN <<0, 0, 0, 0, 0, 0, 0, 0>>
      ELSE <<sign + (ex \div 16), (ex % 16) * 16 + (m12 \div 256), m12 % 256,
             0, 0, 0, 0, 0>>

\* the bytes b[1..8] as a number value; a double that is no integer of the
\* model's range is the value Unmodelled
Unmodelled == [t |-> "unmodelled", v |-> <<>>]

Float64Value(b) ==
  LET sign == b[1] \div 128
      ex == (b[1] % 128) * 16 + (b[2] \div 16)
      m12 == (b[2] % 16) * 256 + b[3]
      e == ex - 1023
      low == \A i \in 4..8 : b[i] = 0
      mag == Pow2(e) + (m12 * Pow2(e)) \div 4096
  IN  IF ex = 0 /\ m12 = 0 /\ low THEN Num(0)
      ELSE IF ex = 2047 /\ (m12 # 0 \/ ~low) THEN NaN
      ELSE IF low /\ e >= 0 /\ e <= 12
              /\ (m12 * Pow2(e)) % 4096 = 0
           THEN Num(IF sign = 1 THEN 0 - mag ELSE mag)
      ELSE Unmodelled

(***************************************************************************)
(* writeString's data: `for (const c of str)` walks the string by code     *)
(* point, and c.charCodeAt(0) is the first code unit of the code point.    *)
(***************************************************************************)
IsHighSurrogate(u) == u >= 55296 /\ u <= 56319
IsLowSurrogate(u) == u >= 56320 /\ u <= 57343

RECURSIVE StringBytes(_)
StringBytes(str) ==
  IF str = <<>> THEN <<0, 0>>
  ELSE LET u == Head(str)
           pair == /\ IsHighSurrogate(u)
                   /\ Len(str) >= 2
                   /\ IsLowSurrogate(str[2])
           rest == IF pair THEN Tail(Tail(str)) ELSE Tail(str)
       IN  <<u \div 256, u % 256>> \o StringBytes(rest)

(***************************************************************************)
(* The instruction emitter.  The compiler's fields are one record st:      *)
(*   instructions, nextId (UniqueId), controlBlockStack, thrown (an Error  *)
(*   left compile(); nothing is written after it).                         *)
(***************************************************************************)
Absent == [type |-> "Absent"]

clear ==
  [instructions |-> <<>>, nextId |-> 1, controlBlockStack |-> <<>>,
   thrown |-> FALSE]

Emit(st, ins) ==
  IF st.thrown THEN st ELSE [st EXCEPT !.instructions = Append(@, ins)]

Throw(st) == [st EXCEPT !.thrown = TRUE]

\* UniqueId.get advances the counter; UidText is the text it returned
UniqueIdGet(st) == IF st.thrown THEN st ELSE [st EXCEPT !.nextId = @ + 1]

UidText(st) == Hex(st.nextId)

createLabelName(st, name) == <<46>> \o name \o <<95>> \o UidText(st)

writeLabel(st, name) == Emit(st, [type |-> "label", name |-> name])

writeOp(st, code) == Emit(st, [type |-> "opcode", opcode |-> code])

writeReference(st, name) ==
  Emit(writeOp(st, ADDR), [type |-> "reference", label |-> name])

writeNumber(st, nu) ==
  Emit(writeOp(st, NUM), [type |-> "data", data |-> Float64Bytes(nu)])

writeString(st, str) ==
  Emit(writeOp(st, STR), [type |-> "data", data |-> StringBytes(str)])

pushControlBlock(st, entry) ==
  IF st.thrown THEN st
  ELSE [st EXCEPT !.controlBlockStack = Append(@, entry)]

popControlBlock(st) ==
  IF st.thrown \/ st.controlBlockStack = <<>> THEN st
  ELSE [st EXCEPT !.controlBlockStack = SubSeq(@, 1, Len(@) - 1)]

(***************************************************************************)
(* Parser.parse: the pre-pass.  traverse() visits the tree in pre-order    *)
(* with the innermost enclosing block (scopeNode); the callback gives      *)
(* every block-forming node a label and a declarations set and pushes it   *)
(* on blocks.  acc = [nextId, blocks, decls, thrown]: decls is the         *)
(* declarations set of scopeNode, in insertion order.                      *)
(***************************************************************************)
ChildFields(type) ==
  CASE type = "Program" -> <<"body">>
    [] type = "BlockStatement" -> <<"body">>
    [] type = "ExpressionStatement" -> <<"expression">>
    [] type = "IfStatement" -> <<"test", "consequent", "alternate">>
    [] type = "SwitchStatement" -> <<"discriminant", "cases">>
    [] type = "SwitchCase" -> <<"test", "consequent">>
    [] type = "WhileStatement" -> <<"test", "body">>
    [] type = "DoWhileStatement" -> <<"body", "test">>
    [] type = "ForStatement" -> <<"init", "test", "update", "body">>
    [] type = "VariableDeclaration" -> <<"declarations">>
    [] type = "VariableDeclarator" -> <<"id", "init">>
    [] type = "FunctionDeclaration" -> <<"id", "params", "body">>
    [] type = "FunctionExpression" -> <<"id", "params", "body">>
    [] type = "ReturnStatement" -> <<"argument">>
    [] type = "ArrayExpression" -> <<"elements">>
    [] type = "ObjectExpression" -> <<"properties">>
    [] type = "Property" -> <<"key", "value">>
    [] type = "UnaryExpression" -> <<"argument">>
    [] type = "UpdateExpression" -> <<"argument">>
    [] type = "BinaryExpression" -> <<"left", "right">>
    [] type = "AssignmentExpression" -> <<"left", "right">>
    [] type = "LogicalExpression" -> <<"left", "right">>
    [] type = "MemberExpression" -> <<"object", "property">>
    [] type = "ConditionalExpression" -> <<"test", "consequent", "alternate">>
    [] type = "CallExpression" -> <<"callee", "arguments">>
    [] type = "NewExpression" -> <<"callee", "arguments">>
    [] type = "SequenceExpression" -> <<"expressions">>
    [] OTHER -> <<>>

IsListField(type, field) ==
  \/ field \in {"cases", "elements", "properties", "arguments", "expressions",
                "params"}
  \/ field = "body" /\ type \in {"Program", "BlockStatement"}
  \/ field = "consequent" /\ type = "SwitchCase"
  \/ field = "declarations" /\ type = "VariableDeclaration"

UnsupportedSyntax ==
  {"LabeledStatement", "ThrowStatement", "TryStatement", "ForInStatement"}

\* Set.prototype.add on an insertion-ordered set
SetAdd(set, name) ==
  IF \E i \in 1..Len(set) : set[i] = name THEN set ELSE Append(set, name)

\* a declaration whose names are not collected
DeclaratorNamesNone(declarators) == <<>>

RECURSIVE DeclaratorNames(_)
DeclaratorNames(declarators) ==
  IF declarators = <<>> THEN <<>>
  ELSE <<Head(declarators).id.name>> \o DeclaratorNames(Tail(declarators))

RECURSIVE SetAddAll(_, _)
SetAddAll(set, names) ==
  IF names = <<>> THEN set
  ELSE SetAddAll(SetAdd(set, Head(names)), Tail(names))

FunctionLabel(node, uid) ==
  <<46>> \o (IF node.id.type = "Absent" THEN S_anonymous ELSE node.id.name)
         \o <<95>> \o Hex(uid)

RECURSIVE traverse(_, _)
RECURSIVE traverseFields(_, _, _)
RECURSIVE traverseList(_, _)

\* next(node, scopeNode): the children of node, in key order
traverseFields(node, fields, acc) ==
  IF fields = <<>> \/ acc.thrown THEN [node |-> node, acc |-> acc]
  ELSE LET f == Head(fields)
           r == IF IsListField(node.type, f)
                THEN traverseList(node[f], acc)
                ELSE traverse(node[f], acc)
       IN  traverseFields([node EXCEPT ![f] = r.node], Tail(fields), r.acc)

traverseList(list, acc) ==
  IF list = <<>> \/ acc.thrown THEN [node |-> list, acc |-> acc]
  ELSE LET h == traverse(Head(list), acc)
           t == traverseList(Tail(list), h.acc)
       IN  [node |-> <<h.node>> \o t.node, acc |-> t.acc]

traverse(node, acc) ==
  IF acc.thrown \/ node.type = "Absent" THEN [node |-> node, acc |-> acc]
  ELSE IF node.type \in UnsupportedSyntax
  THEN [node |-> node, acc |-> [acc EXCEPT !.thrown = TRUE]]
  ELSE IF node.type \in {"FunctionExpression", "FunctionDeclaration"}
  THEN LET outer == IF node.type = "FunctionDeclaration"
                    THEN SetAdd(acc.decls, node.id.name)
                    ELSE acc.decls
           slot == Len(acc.blocks) + 1
           labelled == [type |-> node.type, id |-> node.id,
                        params |-> node.params, body |-> node.body,
                        declarations |-> <<>>,
                        label |-> FunctionLabel(node, acc.nextId)]
           inner == traverseFields(labelled, ChildFields(node.type),
                      [acc EXCEPT !.nextId = @ + 1,
                                  !.blocks = Append(@, labelled),
                                  !.decls = <<>>])
           done == [inner.node EXCEPT !.declarations = inner.acc.decls]
       IN  [node |-> done,
            acc |-> [inner.acc EXCEPT !.decls = outer,
                                      !.blocks[slot] = done]]
  ELSE IF node.type = "VariableDeclaration"
  THEN traverseFields(node, ChildFields(node.type),
         [acc EXCEPT !.decls = SetAddAll(@, DeclaratorNames(node.declarations))])
  ELSE traverseFields(node, ChildFields(node.type), acc)

\* parse(code): the blocks, and the uid the compiler continues from
parse(program, st) ==
  LET root == [type |-> "Program", body |-> program.body,
               declarations |-> <<>>,
               label |-> <<46>> \o S_main \o <<95>> \o Hex(st.nextId)]
      r == traverseFields(root, ChildFields("Program"),
             [nextId |-> st.nextId + 1, blocks |-> <<root>>, decls |-> <<>>,
              thrown |-> FALSE])
      main == [r.node EXCEPT !.declarations = r.acc.decls]
  IN  [blocks |-> [r.acc.blocks EXCEPT ![1] = main],
       nextId |-> r.acc.nextId,
       thrown |-> r.acc.thrown]

(***************************************************************************)
(* The lowerer: compileStatement / compileExpression (compiler.ts).        *)
(***************************************************************************)
\* /Expression$/.test(type)
EndsWithExpression(type) ==
  type \in {"ThisExpression", "ArrayExpression", "ObjectExpression",
            "UnaryExpression", "BinaryExpression", "UpdateExpression",
            "AssignmentExpression", "LogicalExpression", "MemberExpression",
            "ConditionalExpression", "CallExpression", "NewExpression",
            "SequenceExpression", "FunctionExpression"}

BinaryOpCode(operator) ==
  CASE operator = "==" -> EQ
    [] operator = "!=" -> NEQ
    [] operator = "===" -> SEQ
    [] operator = "!==" -> SNEQ
    [] operator = "<" -> LT
    [] operator = "<=" -> LTE
    [] operator = ">" -> GT
    [] operator = ">=" -> GTE
    [] operator = "<<" -> LSHIFT
    [] operator = ">>" -> RSHIFT
    [] operator = ">>>" -> URSHIFT
    [] operator = "+" -> ADD
    [] operator = "-" -> SUB
    [] operator = "*" -> MUL
    [] operator = "**" -> EXP
    [] operator = "/" -> DIV
    [] operator = "%" -> MOD
    [] operator = "|" -> BOR
    [] operator = "^" -> BXOR
    [] operator = "&" -> BAND
    [] operator = "in" -> IN_
    [] operator = "instanceof" -> INSOF

\* the table of compound operators with the entries of += and -= exchanged
AssignmentOpCodeExchanged(operator) ==
  CASE operator = "+=" -> SUB
    [] operator = "-=" -> ADD
    [] OTHER -> NOP

AssignmentOpCode(operator) ==
  CASE operator = "=" -> NOP
    [] operator = "+=" -> ADD
    [] operator = "-=" -> SUB
    [] operator = "*=" -> MUL
    [] operator = "**=" -> EXP
    [] operator = "/=" -> DIV
    [] operator = "%=" -> MOD
    [] operator = "<<=" -> LSHIFT
    [] operator = ">>=" -> RSHIFT
    [] operator = ">>>=" -> URSHIFT
    [] operator = "|=" -> BOR
    [] operator = "^=" -> BXOR
    [] operator = "&=" -> BAND

\* the innermost control block that has the wanted label ("" when none has)
RECURSIVE innermostLabel(_, _, _)
innermostLabel(stack, i, key) ==
  IF i = 0 THEN <<>>
  ELSE IF stack[i][key] # <<>> THEN stack[i][key]
  ELSE innermostLabel(stack, i - 1, key)

\* arguments.length inside compileExpression(expr): every call passes one
\* argument
ArgumentsLength == 1

RECURSIVE compileStatement(_, _)
RECURSIVE compileExpression(_, _)
RECURSIVE compileStatements(_, _)
RECURSIVE compileElements(_, _, _)
RECURSIVE compileProperties(_, _)
RECURSIVE compileSequence(_, _, _)
RECURSIVE switchTests(_, _, _, _, _)
RECURSIVE switchBodies(_, _, _, _, _)

\* the rest of the loop over statements: an exception raised by a
\* statement ends it
nextStatements(st, body) ==
  IF st.thrown THEN st ELSE compileStatements(st, body)

compileStatements(st, body) ==
  IF body = <<>> THEN st
  ELSE nextStatements(compileStatement(st, Head(body)), Tail(body))

compileMemberAndProperty(st, expr) ==
  LET s1 == compileExpression(st, expr.object)
  IN  IF expr.computed THEN compileExpression(s1, expr.property)
      ELSE writeString(s1, expr.property.name)

\* the first loop of SwitchStatement: the tests, from case i (0-based)
switchTests(st, cases, i, caseLabel, defaultLabel) ==
  IF i >= Len(cases) THEN st
  ELSE LET c == cases[i + 1]
           s1 == IF c.test.type # "Absent"
                 THEN writeOp(
                        writeReference(
                          writeOp(compileExpression(writeOp(st, TOP), c.test), SEQ),
                          caseLabel \o <<95>> \o Dec(i)),
                        JUMPIF)
                 ELSE writeOp(writeReference(st, defaultLabel), JUMP)
       IN  switchTests(s1, cases, i + 1, caseLabel, defaultLabel)

\* the second loop of SwitchStatement: the labelled bodies
switchBodies(st, cases, i, caseLabel, defaultLabel) ==
  IF i >= Len(cases) THEN st
  ELSE LET c == cases[i + 1]
           s1 == IF c.test.type # "Absent"
                 THEN writeLabel(st, caseLabel \o <<95>> \o Dec(i))
                 ELSE writeLabel(st, defaultLabel)
       IN  switchBodies(compileStatements(s1, c.consequent), cases, i + 1,
                        caseLabel, defaultLabel)

\* the declarators that have an initialiser, as assignment expressions
RECURSIVE initialisers(_)
initialisers(declarations) ==
  IF declarations = <<>> THEN <<>>
  ELSE LET v == Head(declarations)
       IN  (IF v.init.type # "Absent"
            THEN <<[type |-> "AssignmentExpression", operator |-> "=",
                    left |-> [type |-> "Identifier", name |-> v.id.name],
                    right |-> v.init]>>
            ELSE <<>>) \o initialisers(Tail(declarations))

compileStatement(st, statement) ==
  IF st.thrown THEN st
  ELSE CASE statement.type \in {"EmptyStatement", "DebuggerStatement"} -> st
    [] statement.type = "BlockStatement" ->
         compileStatements(st, statement.body)
    [] statement.type = "BreakStatement" ->
         LET breakLabel == innermostLabel(st.controlBlockStack,
                                          Len(st.controlBlockStack), "break")
         IN  writeOp(IF breakLabel # <<>> THEN writeReference(st, breakLabel)
                     ELSE st, JUMP)
    [] statement.type = "ContinueStatement" ->
         LET breakLabel == innermostLabel(st.controlBlockStack,
                                          Len(st.controlBlockStack), "continue")
         IN  writeOp(IF breakLabel # <<>> THEN writeReference(st, breakLabel)
                     ELSE st, JUMP)
    [] statement.type = "IfStatement" ->
         LET endLabel == createLabelName(st, S_cond_end)
             s1 == UniqueIdGet(st)
             altLabel == createLabelName(s1, S_cond_alt)
             s2 == UniqueIdGet(s1)
             hasAlt == statement.alternate.type # "Absent"
             s3 == compileExpression(s2, statement.test)
             s4 == writeReference(s3, IF hasAlt THEN altLabel ELSE endLabel)
             s5 == writeOp(s4, JUMPNOT)
             s6 == compileStatement(s5, statement.consequent)
             s7 == IF hasAlt
                   THEN compileStatement(
                          writeLabel(writeOp(writeReference(s6, endLabel), JUMP),
                                     altLabel),
                          statement.alternate)
                   ELSE s6
         IN  writeLabel(s7, endLabel)
    [] statement.type = "SwitchStatement" ->
         LET caseLabel == createLabelName(st, S_switch_case)
             s1 == UniqueIdGet(st)
             defaultLabel == createLabelName(s1, S_switch_default)
             s2 == UniqueIdGet(s1)
             endLabel == createLabelName(s2, S_switch_end)
             s3 == UniqueIdGet(s2)
             s4 == pushControlBlock(s3, [continue |-> <<>>, break |-> endLabel])
             s5 == compileExpression(s4, statement.discriminant)
             s6 == switchTests(s5, statement.cases, 0, caseLabel, defaultLabel)
             s7 == switchBodies(s6, statement.cases, 0, caseLabel, defaultLabel)
             s8 == writeOp(s7, POP)
         \* `this.controlBlockStack.pop;` names the method without calling it
         IN  writeLabel(s8, endLabel)
    [] statement.type = "WhileStatement" ->
         LET startLabel == createLabelName(st, S_while_start)
             s1 == UniqueIdGet(st)
             endLabel == createLabelName(s1, S_while_end)
             s2 == UniqueIdGet(s1)
             s3 == pushControlBlock(s2, [continue |-> startLabel,
                                         break |-> endLabel])
             s4 == writeLabel(s3, startLabel)
             s5 == compileExpression(s4, statement.test)
             s6 == writeOp(writeReference(s5, endLabel), JUMPNOT)
             s7 == compileStatement(s6, statement.body)
             s8 == writeLabel(s7, endLabel)
         IN  popControlBlock(s8)
    [] statement.type = "DoWhileStatement" ->
         LET startLabel == createLabelName(st, S_do_while_start)
             s1 == UniqueIdGet(st)
             testLabel == createLabelName(s1, S_do_while_test)
             s2 == UniqueIdGet(s1)
             endLabel == createLabelName(s2, S_do_while_end)
             s3 == UniqueIdGet(s2)
             s4 == pushControlBlock(s3, [continue |-> testLabel,
                                         break |-> endLabel])
             s5 == writeLabel(s4, startLabel)
             s6 == compileStatement(s5, statement.body)
             s7 == writeLabel(s6, testLabel)
             s8 == compileExpression(s7, statement.test)
             s9 == writeOp(writeReference(s8, startLabel), JUMPIF)
         IN  popControlBlock(writeLabel(s9, endLabel))
    [] statement.type = "ForStatement" ->
         LET startLabel == createLabelName(st, S_for_start)
             s1 == UniqueIdGet(st)
             updateLabel == createLabelName(s1, S_for_update)
             s2 == UniqueIdGet(s1)
             endLabel == createLabelName(s2, S_for_end)
             s3 == UniqueIdGet(s2)
             s4 == pushControlBlock(s3, [continue |-> updateLabel,
                                         break |-> endLabel])
             init == IF EndsWithExpression(statement.init.type)
                     THEN [type |-> "ExpressionStatement",
                           expression |-> statement.init]
                     ELSE statement.init
             s5 == IF statement.init.type # "Absent"
                   THEN compileStatement(s4, init) ELSE s4
             s6 == writeLabel(s5, startLabel)
             s7 == compileStatement(s6, statement.body)
             s8 == writeLabel(s7, updateLabel)
             s9 == IF statement.update.type # "Absent"
                   THEN compileStatement(s8, [type |-> "ExpressionStatement",
                                              expression |-> statement.update])
                   ELSE s8
             s10 == IF statement.test.type # "Absent"
                    THEN writeOp(writeReference(
                           compileExpression(s9, statement.test), startLabel),
                           JUMPIF)
                    ELSE writeOp(writeReference(s9, startLabel), JUMP)
         IN  popControlBlock(writeLabel(s10, endLabel))
    [] statement.type = "VariableDeclaration" ->
         compileStatement(st,
           [type |-> "ExpressionStatement",
            expression |-> [type |-> "SequenceExpression",
                            expressions |-> initialisers(statement.declarations)]])
    [] statement.type = "FunctionDeclaration" ->
         LET s1 == writeOp(st, NULL)
             s2 == writeNumber(s1, Len(statement.params))
             s3 == writeReference(s2, statement.label)
             s4 == writeOp(s3, FUNC)
             s5 == writeString(s4, statement.id.name)
         IN  writeOp(writeOp(s5, OUT), POP)
    [] statement.type = "ReturnStatement" ->
         writeOp(IF statement.argument.type # "Absent"
                 THEN compileExpression(st, statement.argument)
                 ELSE writeOp(st, UNDEF), RET)
    [] statement.type = "ExpressionStatement" ->
         writeOp(compileExpression(st, statement.expression), POP)
    [] OTHER -> Throw(st)

\* the loop of ArrayExpression, from element i (0-based)
compileElements(st, elements, i) ==
  IF i >= Len(elements) THEN st
  ELSE LET element == elements[i + 1]
           s1 == writeNumber(writeOp(st, TOP), i)
           s2 == IF element.type # "Absent" THEN compileExpression(s1, element)
                 ELSE writeOp(s1, NULL)
       IN  compileElements(writeOp(writeOp(s2, SET), POP), elements, i + 1)

\* the loop of ObjectExpression
compileProperties(st, properties) ==
  IF properties = <<>> THEN st
  ELSE LET prop == Head(properties)
           s1 == writeOp(st, TOP)
           s2 == IF prop.computed THEN compileExpression(s1, prop.key)
                 ELSE writeString(s1, prop.key.name)
           s3 == compileExpression(s2, prop.value)
       IN  compileProperties(writeOp(writeOp(s3, SET), POP), Tail(properties))

\* the loop of SequenceExpression, from expression i (0-based)
compileSequence(st, expressions, i) ==
  IF i >= Len(expressions) THEN st
  ELSE LET s1 == compileExpression(st, expressions[i + 1])
           s2 == IF i < ArgumentsLength - 1 THEN writeOp(s1, POP) ELSE s1
       IN  compileSequence(s2, expressions, i + 1)

compileExpression(st, expr) ==
  IF st.thrown THEN st
  ELSE CASE expr.type = "Identifier" ->
         IF expr.name = S_undefined THEN writeOp(st, UNDEF)
         ELSE IF expr.name = S_null THEN writeOp(st, NULL)
         ELSE writeOp(writeString(st, expr.name), LOAD)
    [] expr.type = "Literal" ->
         CASE expr.value.t = "null" -> writeOp(st, NULL)
           [] expr.value.t = "number" -> writeNumber(st, expr.value.v[1])
           [] expr.value.t = "string" -> writeString(st, expr.value.v)
           [] expr.value.t = "boolean" ->
                writeOp(st, IF expr.value.v[1] = 1 THEN TRUE_ ELSE FALSE_)
           [] OTHER -> Throw(st)
    [] expr.type = "ThisExpression" -> writeOp(writeString(st, S_this), LOAD)
    [] expr.type = "ArrayExpression" ->
         compileElements(writeOp(st, ARR), expr.elements, 0)
    [] expr.type = "ObjectExpression" ->
         compileProperties(writeOp(st, OBJ), expr.properties)
    [] expr.type = "UnaryExpression" ->
         CASE expr.operator = "+" ->
                writeOp(compileExpression(writeNumber(st, 0), expr.argument), ADD)
           [] expr.operator = "-" ->
                writeOp(compileExpression(writeNumber(st, 0), expr.argument), SUB)
           [] expr.operator = "!" ->
                writeOp(compileExpression(st, expr.argument), NOT)
           [] expr.operator = "~" ->
                writeOp(compileExpression(st, expr.argument), BNOT)
           [] expr.operator = "typeof" ->
                writeOp(compileExpression(st, expr.argument), TYPEOF)
           [] expr.operator = "void" ->
                writeOp(writeOp(compileExpression(st, expr.argument), POP), UNDEF)
           [] expr.operator = "delete" ->
                IF expr.argument.type = "MemberExpression"
                THEN writeOp(compileMemberAndProperty(st, expr.argument), DELETE)
                ELSE writeOp(st, TRUE_)
           [] OTHER -> st
    [] expr.type = "BinaryExpression" ->
         writeOp(compileExpression(compileExpression(st, expr.left), expr.right),
                 BinaryOpCode(expr.operator))
    [] expr.type = "UpdateExpression" ->
         LET argument == expr.argument
             op == IF expr.operator = "++" THEN ADD ELSE SUB
             s1 == CASE argument.type = "Identifier" ->
                          writeOp(
                            writeString(
                              writeOp(writeNumber(compileExpression(st, argument), 1),
                                      op),
                              argument.name),
                            OUT)
                     [] argument.type = "MemberExpression" ->
                          writeOp(
                            writeOp(
                              writeNumber(
                                writeOp(
                                  writeOp(compileMemberAndProperty(st, argument),
                                          TOP2),
                                  GET),
                                1),
                              op),
                            SET)
                     [] OTHER -> st
         IN  IF ~expr.prefix
             THEN writeOp(writeNumber(s1, 0), IF op = ADD THEN SUB ELSE ADD)
             ELSE s1
    [] expr.type = "AssignmentExpression" ->
         LET op == AssignmentOpCode(expr.operator)
         IN  CASE expr.left.type = "Identifier" ->
                    LET s1 == compileExpression(st, expr.right)
                    IN  IF expr.operator = "="
                        THEN writeOp(writeString(s1, expr.left.name), OUT)
                        ELSE writeOp(writeOp(compileExpression(s1, expr.left), op),
                                     OUT)
               [] expr.left.type = "MemberExpression" ->
                    LET s1 == compileMemberAndProperty(st, expr.left)
                    IN  IF expr.operator = "="
                        THEN writeOp(compileExpression(s1, expr.right), SET)
                        ELSE writeOp(
                               writeOp(
                                 compileExpression(writeOp(writeOp(s1, TOP2), GET),
                                                   expr.right),
                                 op),
                               SET)
               [] OTHER -> st
    [] expr.type = "LogicalExpression" ->
         LET label == createLabelName(st, S_logic_end)
             s1 == UniqueIdGet(st)
             s2 == compileExpression(s1, expr.left)
             s3 == writeReference(writeOp(s2, TOP), label)
             s4 == CASE expr.operator = "&&" ->
                          writeOp(compileExpression(writeOp(s3, JUMPIF), expr.right),
                                  AND)
                     [] expr.operator = "||" ->
                          writeOp(compileExpression(writeOp(s3, JUMPNOT), expr.right),
                                  OR)
                     [] OTHER -> s3
         IN  writeLabel(s4, label)
    [] expr.type = "MemberExpression" ->
         writeOp(compileMemberAndProperty(st, expr), GET)
    [] expr.type = "ConditionalExpression" ->
         LET endLabel == createLabelName(st, S_cond_end)
             s1 == UniqueIdGet(st)
             altLabel == createLabelName(s1, S_cond_alt)
             s2 == UniqueIdGet(s1)
             s3 == compileExpression(s2, expr.test)
             s4 == writeLabel(s3, altLabel)
             s5 == writeOp(s4, JUMPNOT)
             s6 == compileExpression(s5, expr.consequent)
             s7 == writeOp(writeReference(s6, endLabel), JUMP)
             s8 == writeLabel(s7, altLabel)
             s9 == compileExpression(s8, expr.alternate)
         IN  writeLabel(s9, endLabel)
    [] expr.type = "CallExpression" ->
         LET callee == expr.callee
             s1 == IF callee.type = "MemberExpression"
                   THEN LET s0 == writeOp(compileExpression(st, callee.object), TOP)
                        IN  IF callee.computed
                            THEN writeOp(compileExpression(s0, callee.property), GET)
                            ELSE writeOp(writeString(s0, callee.property.name), GET)
                   ELSE compileExpression(writeOp(st, NULL), callee)
             s2 == compileExpression(s1, [type |-> "ArrayExpression",
                                          elements |-> expr.arguments])
         IN  writeOp(s2, CALL)
    [] expr.type = "NewExpression" ->
         LET s1 == compileExpression(st, expr.callee)
             s2 == compileExpression(s1, [type |-> "ArrayExpression",
                                          elements |-> expr.arguments])
         IN  writeOp(s2, NEW_)
    [] expr.type = "SequenceExpression" ->
         compileSequence(st, expr.expressions, 0)
    [] expr.type = "FunctionExpression" ->
         LET s1 == IF expr.id.type # "Absent" THEN writeString(st, expr.id.name)
                   ELSE writeOp(st, NULL)
         IN  writeOp(writeReference(writeNumber(s1, Len(expr.params)), expr.label),
                     FUNC)
    [] OTHER -> Throw(st)

\* a block lowered without its `STR name; VAR` declarations
declareNone(st, names) == st

\* the loops of compileBlock: `STR name; VAR` for every hoisted name
RECURSIVE declareAll(_, _)
declareAll(st, names) ==
  IF names = <<>> THEN st
  ELSE declareAll(writeOp(writeString(st, Head(names)), VAR), Tail(names))

\* the parameter loop of compileBlock, from parameter i (0-based)
RECURSIVE compileParams(_, _, _)
compileParams(st, params, i) ==
  IF i >= Len(params) THEN st
  ELSE LET name == params[i + 1].name
           s1 == writeOp(writeString(st, name), VAR)
           s2 == writeOp(writeNumber(writeOp(s1, TOP), i), GET)
           s3 == writeOp(writeOp(writeString(s2, name), OUT), POP)
       IN  compileParams(s3, params, i + 1)

\* a block lowered without the RET that closes it
compileBlockOpen(st, block) ==
  LET s0 == writeLabel(st, block.label)
  IN  IF block.type = "Program"
      THEN compileStatements(declareAll(s0, block.declarations), block.body)
      ELSE LET s1 == writeOp(compileParams(s0, block.params, 0), POP)
               s2 == declareAll(s1, block.declarations)
           IN  writeOp(compileStatement(s2, block.body), UNDEF)

compileBlock(st, block) ==
  LET s0 == writeLabel(st, block.label)
  IN  IF block.type = "Program"
      THEN writeOp(compileStatements(declareAll(s0, block.declarations),
                                     block.body), RET)
      ELSE LET s1 == writeOp(compileParams(s0, block.params, 0), POP)
               s2 == declareAll(s1, block.declarations)
               s3 == compileStatement(s2, block.body)
           IN  writeOp(writeOp(s3, UNDEF), RET)

RECURSIVE compileBlocks(_, _)
\* the rest of the loop over blocks: an exception raised in a block ends it
nextBlocks(st, blocks) == IF st.thrown THEN st ELSE compileBlocks(st, blocks)

compileBlocks(st, blocks) ==
  IF blocks = <<>> THEN st
  ELSE nextBlocks(compileBlock(st, Head(blocks)), Tail(blocks))

\* compile(source): clear(), parse, then every block in discovery order
compile(program) ==
  LET parsed == parse(program, clear)
      st == [clear EXCEPT !.nextId = parsed.nextId, !.thrown = parsed.thrown]
  IN  compileBlocks(st, parsed.blocks)

\* a clear() that leaves the instruction buffer as it was
clearKeepsInstructions(instance) ==
  [instance EXCEPT !.nextId = 1, !.controlBlockStack = <<>>, !.thrown = FALSE]

\* clear() on a Compiler that has compiled before: the instruction buffer,
\* the id counter and the control-block stack are reset (an exception the
\* earlier call raised has left the instance by then)
clearInstance(instance) ==
  [instance EXCEPT !.instructions = <<>>, !.nextId = 1,
                   !.controlBlockStack = <<>>, !.thrown = FALSE]

\* compile(source) on a Compiler whose fields are those of instance
compileOn(instance, program) ==
  LET st0 == clearInstance(instance)
      parsed == parse(program, st0)
      st == [st0 EXCEPT !.nextId = parsed.nextId, !.thrown = parsed.thrown]
  IN  compileBlocks(st, parsed.blocks)

(***************************************************************************)
(* toNumberArray: the assembler.  A label's address is the number of bytes *)
(* emitted before it (a later definition of the same name replaces an      *)
(* earlier one); a reference takes 4 bytes, patched after the walk with    *)
(* the big-endian address of its label (0 when the label was never set).   *)
(***************************************************************************)
InstructionSize(ins) ==
  CASE ins.type = "reference" -> 4
    [] ins.type = "opcode" -> 1
    [] ins.type = "data" -> Len(ins.data)
    [] OTHER -> 0

\* the bytes the first loop pushes for instructions lo..hi (the loop's sum
\* is taken by halves, which keeps the evaluation shallow)
RECURSIVE SizeOfRange(_, _, _)
SizeOfRange(instructions, lo, hi) ==
  IF lo > hi THEN 0
  ELSE IF lo = hi THEN InstructionSize(instructions[lo])
  ELSE LET mid == (lo + hi) \div 2
       IN  SizeOfRange(instructions, lo, mid)
           + SizeOfRange(instructions, mid + 1, hi)

\* codes.length when instruction i is reached
OffsetOf(instructions, i) == SizeOfRange(instructions, 1, i - 1)

\* labelMap.get(name).address after the first loop
LabelAddress(instructions, name) ==
  LET defs == {i \in 1..Len(instructions) :
                 instructions[i].type = "label" /\ instructions[i].name = name}
  IN  IF defs = {} THEN 0
      ELSE OffsetOf(instructions, CHOOSE i \in defs : \A j \in defs : j <= i)

\* setUint32 with the least significant byte first
Uint32BytesLittle(a) ==
  <<a % 256, (a \div 256) % 256, (a \div 65536) % 256, a \div 16777216>>

Uint32Bytes(a) ==
  <<a \div 16777216, (a \div 65536) % 256, (a \div 256) % 256, a % 256>>

\* codes after both loops, for instructions lo..hi (taken by halves)
RECURSIVE AssembleRange(_, _, _)
AssembleRange(instructions, lo, hi) ==
  IF lo > hi THEN <<>>
  ELSE IF lo = hi
  THEN LET ins == instructions[lo]
       IN  CASE ins.type = "reference" ->
                  Uint32Bytes(LabelAddress(instructions, ins.label))
             [] ins.type = "opcode" -> <<ins.opcode>>
             [] ins.type = "data" -> ins.data
             [] OTHER -> <<>>
  ELSE LET mid == (lo + hi) \div 2
       IN  AssembleRange(instructions, lo, mid)
           \o AssembleRange(instructions, mid + 1, hi)

toNumberArray(instructions) == AssembleRange(instructions, 1, Len(instructions))

(***************************************************************************)
(* The host language's value semantics, as far as run() relies on them.    *)
(* An operation whose result lies outside the modelled values (a double    *)
(* that is no small integer, a host built-in, the primitive of an object)  *)
(* yields Unmodelled; one that raises a TypeError yields Thrown.           *)
(***************************************************************************)
Thrown == [t |-> "thrown", v |-> <<>>]

IsRef(v) == v.t \in {"object", "function"}

ToBoolean(v) ==
  CASE v.t \in {"undefined", "null", "NaN"} -> FALSE
    [] v.t = "boolean" -> v.v[1] = 1
    [] v.t = "number" -> v.v[1] # 0
    [] v.t = "string" -> v.v # <<>>
    [] OTHER -> TRUE

IsDigits(s) == s # <<>> /\ \A i \in 1..Len(s) : s[i] >= 48 /\ s[i] <= 57

RECURSIVE DigitsValue(_)
DigitsValue(s) ==
  IF s = <<>> THEN 0
  ELSE 10 * DigitsValue(SubSeq(s, 1, Len(s) - 1)) + (s[Len(s)] - 48)

\* the text of a number: Number.prototype.toString()
NumberText(n) == IF n < 0 THEN <<45>> \o Dec(0 - n) ELSE Dec(n)

\* ToNumber of a string: "" is 0, decimal digits are their value, a text
\* without digit, white space or "I" (Infinity) is NaN
StringToNumber(s) ==
  IF s = <<>> THEN Num(0)
  ELSE IF IsDigits(s) /\ Len(s) <= 4 THEN Num(DigitsValue(s))
  ELSE IF \E i \in 1..Len(s) :
            \/ s[i] >= 48 /\ s[i] <= 57
            \/ s[i] <= 32 \/ s[i] >= 127 \/ s[i] = 73
       THEN Unmodelled
  ELSE NaN

ToNumber(v) ==
  CASE v.t = "undefined" -> NaN
    [] v.t = "null" -> Num(0)
    [] v.t = "boolean" -> Num(IF v.v[1] = 1 THEN 1 ELSE 0)
    [] v.t \in {"number", "NaN"} -> v
    [] v.t = "string" -> StringToNumber(v.v)
    [] OTHER -> Unmodelled

JSToString(v) ==
  CASE v.t = "undefined" -> Str(S_undefined)
    [] v.t = "null" -> Str(S_null)
    [] v.t = "boolean" -> Str(IF v.v[1] = 1 THEN <<116, 114, 117, 101>>
                              ELSE <<102, 97, 108, 115, 101>>)
    [] v.t = "number" -> Str(NumberText(v.v[1]))
    [] v.t = "NaN" -> Str(<<78, 97, 78>>)
    [] v.t = "string" -> v
    [] OTHER -> Unmodelled

\* typeof
TypeOf(v) ==
  CASE v.t = "undefined" -> Str(S_undefined)
    [] v.t = "null" -> Str(<<111, 98, 106, 101, 99, 116>>)
    [] v.t = "object" -> Str(<<111, 98, 106, 101, 99, 116>>)
    [] v.t = "boolean" -> Str(<<98, 111, 111, 108, 101, 97, 110>>)
    [] v.t \in {"number", "NaN"} -> Str(<<110, 117, 109, 98, 101, 114>>)
    [] v.t = "string" -> Str(<<115, 116, 114, 105, 110, 103>>)
    [] v.t = "function" -> Str(<<102, 117, 110, 99, 116, 105, 111, 110>>)

\* ===
StrictEquals(l, r) ==
  /\ l.t = r.t
  /\ l.t # "NaN"
  /\ l.v = r.v

\* == : a Value (a boolean, or Unmodelled when an object meets a primitive)
LooseEquals(l, r) ==
  LET nullish == {"undefined", "null"}
      nl == ToNumber(l)
      nr == ToNumber(r)
  IN  IF l.t = r.t \/ (l.t \in {"number", "NaN"} /\ r.t \in {"number", "NaN"})
      THEN Bool(StrictEquals(l, r))
      ELSE IF l.t \in nullish \/ r.t \in nullish
      THEN Bool(l.t \in nullish /\ r.t \in nullish)
      ELSE IF IsRef(l) /\ IsRef(r) THEN Bool(FALSE)
      ELSE IF nl = Unmodelled \/ nr = Unmodelled THEN Unmodelled
      ELSE Bool(StrictEquals(nl, nr))

\* string order by code units: l < r
RECURSIVE StringLess(_, _)
StringLess(l, r) ==
  IF r = <<>> THEN FALSE
  ELSE IF l = <<>> THEN TRUE
  ELSE IF Head(l) # Head(r) THEN Head(l) < Head(r)
  ELSE StringLess(Tail(l), Tail(r))

\* the abstract relational comparison l < r: a boolean, Undefined when an
\* operand is NaN, Unmodelled for objects
Compare(l, r) ==
  LET nl == ToNumber(l)
      nr == ToNumber(r)
  IN  IF IsRef(l) \/ IsRef(r) THEN Unmodelled
      ELSE IF l.t = "string" /\ r.t = "string" THEN Bool(StringLess(l.v, r.v))
      ELSE IF nl = Unmodelled \/ nr = Unmodelled THEN Unmodelled
      ELSE IF nl.t = "NaN" \/ nr.t = "NaN" THEN Undefined
      ELSE Bool(nl.v[1] < nr.v[1])

Not(b) == IF b.t = "boolean" THEN Bool(b.v[1] # 1) ELSE b

\* l < r
Less(l, r) ==
  LET c == Compare(l, r) IN IF c = Undefined THEN Bool(FALSE) ELSE c

\* l <= r: not (r < l), and false when an operand is NaN
LessEq(l, r) ==
  LET c == Compare(r, l) IN IF c = Undefined THEN Bool(FALSE) ELSE Not(c)

\* the remainder of the host's %: the sign of the dividend
Remainder(a, b) ==
  LET aa == IF a < 0 THEN 0 - a ELSE a
      bb == IF b < 0 THEN 0 - b ELSE b
  IN  IF a < 0 THEN 0 - (aa % bb) ELSE aa % bb

\* the numeric operators on two numbers (after ToNumber)
Arithmetic(code, nl, nr) ==
  IF nl = Unmodelled \/ nr = Unmodelled THEN Unmodelled
  ELSE IF nl.t = "NaN" \/ nr.t = "NaN" THEN NaN
  ELSE CASE code = ADD -> Num(nl.v[1] + nr.v[1])
         [] code = SUB -> Num(nl.v[1] - nr.v[1])
         [] code = MUL -> Num(nl.v[1] * nr.v[1])
         [] code = DIV ->
              IF nr.v[1] = 0 THEN (IF nl.v[1] = 0 THEN NaN ELSE Unmodelled)
              ELSE IF Remainder(nl.v[1], nr.v[1]) = 0
                   THEN Num((IF (nl.v[1] < 0) # (nr.v[1] < 0) THEN -1 ELSE 1)
                            * ((IF nl.v[1] < 0 THEN 0 - nl.v[1] ELSE nl.v[1])
                               \div (IF nr.v[1] < 0 THEN 0 - nr.v[1] ELSE nr.v[1])))
              ELSE Unmodelled
         [] code = MOD ->
              IF nr.v[1] = 0 THEN NaN ELSE Num(Remainder(nl.v[1], nr.v[1]))
         [] OTHER -> Unmodelled

\* left + right
Plus(l, r) ==
  IF IsRef(l) \/ IsRef(r) THEN Unmodelled
  ELSE IF l.t = "string" \/ r.t = "string"
  THEN Str(JSToString(l).v \o JSToString(r).v)
  ELSE Arithmetic(ADD, ToNumber(l), ToNumber(r))

\* the bitwise operators on non-negative 32-bit integers
RECURSIVE BitAnd(_, _)
BitAnd(a, b) ==
  IF a = 0 \/ b = 0 THEN 0
  ELSE 2 * BitAnd(a \div 2, b \div 2) + (IF a % 2 = 1 /\ b % 2 = 1 THEN 1 ELSE 0)

\* ToInt32 of a number value: NaN is 0
ToInt32(n) == IF n.t = "NaN" THEN 0 ELSE n.v[1]

Bitwise(code, nl, nr) ==
  LET a == ToInt32(nl)
      b == ToInt32(nr)
      and == BitAnd(a, b)
  IN  IF nl = Unmodelled \/ nr = Unmodelled \/ a < 0 \/ b < 0 THEN Unmodelled
      ELSE CASE code = BAND -> Num(and)
             [] code = BOR -> Num(a + b - and)
             [] code = BXOR -> Num(a + b - 2 * and)
             [] code = RSHIFT -> Num(a \div Pow2(b % 32))
             [] code = URSHIFT -> Num(a \div Pow2(b % 32))
             [] OTHER -> Unmodelled

\* the result a binary opcode pushes for the operands left and right; the
\* switch of run() takes the first case whose value is the byte
BinaryResult(code, left, right) ==
  CASE code = EQ -> LooseEquals(left, right)
    [] code = NEQ -> Not(LooseEquals(left, right))
    [] code = SEQ -> Bool(StrictEquals(left, right))
    [] code = SNEQ -> Bool(~StrictEquals(left, right))
    [] code = LT -> Less(left, right)
    [] code = LTE -> LessEq(left, right)
    [] code = GT -> Less(right, left)
    [] code = GTE -> LessEq(right, left)
    [] code = ADD -> Plus(left, right)
    [] code \in {SUB, MUL, DIV, MOD} ->
         Arithmetic(code, ToNumber(left), ToNumber(right))
    [] code \in {BOR, BXOR, BAND, RSHIFT, URSHIFT} ->
         Bitwise(code, ToNumber(left), ToNumber(right))
    [] code = OR -> IF ToBoolean(left) THEN left ELSE right
    [] code = AND -> IF ToBoolean(left) THEN right ELSE left
    [] OTHER -> Unmodelled

BinaryCodes ==
  {EQ, NEQ, SEQ, SNEQ, LT, LTE, GT, GTE, ADD, SUB, MUL, EXP, DIV, MOD,
   BOR, BXOR, BAND, LSHIFT, RSHIFT, URSHIFT, OR, AND, INSOF}

UnaryResult(code, arg) ==
  CASE code = NOT -> Bool(~ToBoolean(arg))
    [] code = TYPEOF -> TypeOf(arg)
    [] code = BNOT ->
         LET n == ToNumber(arg)
         IN  IF n = Unmodelled THEN Unmodelled ELSE Num(0 - ToInt32(n) - 1)

UnaryCodes == {BNOT, NOT, TYPEOF}

(***************************************************************************)
(* The state.                                                              *)
(*   source     the program handed to compile(), as the parser's tree      *)
(*   phase      "source", "compiled", "running", "done" (the root frame    *)
(*              returned), "error" (an Error left compile() or run()),     *)
(*              "unmodelled" (run() reached a value outside the model)     *)
(*   compiler   the Compiler's fields                                      *)
(*   codes      the byte array of toNumberArray                            *)
(*   frames     the VirtualMachine instances on the host call stack, the   *)
(*              running one last: [scope, pieceOfCode, stack]              *)
(*   scopes     the Scope objects: [parent, global, content]               *)
(*   global     the embedder's object behind the GlobalScope               *)
(*   heap       the objects and arrays: [kind, props, length]              *)
(*   closures   the functions made by FUNC: [scope, addr, len, name]       *)
(*   result     what the root frame's run() returned                       *)
(*   steps      the number of opcodes dispatched                           *)
(***************************************************************************)
VARIABLES source, phase, compiler, codes, frames, scopes, global, heap,
          closures, result, steps

vars == <<source, phase, compiler, codes, frames, scopes, global, heap,
          closures, result, steps>>

\* Scope.load, and GlobalScope.load at the root of the chain
RECURSIVE ScopeLoad(_, _, _, _)
ScopeLoad(sc, glob, id, name) ==
  IF name \in DOMAIN sc[id].content THEN sc[id].content[name]
  ELSE IF sc[id].parent # 0 THEN ScopeLoad(sc, glob, sc[id].parent, name)
  ELSE LET key == JSToString(name)
       IN  IF ~sc[id].global THEN Thrown
           ELSE IF key = Unmodelled THEN Unmodelled
           ELSE IF key.v \in DOMAIN glob THEN glob[key.v]
           ELSE Thrown

\* the scope farthest along the chain from id whose content has the name
RECURSIVE OutermostDeclaringScope(_, _, _)
OutermostDeclaringScope(sc, id, name) ==
  LET outer == IF sc[id].parent # 0
               THEN OutermostDeclaringScope(sc, sc[id].parent, name) ELSE 0
  IN  IF outer # 0 THEN outer
      ELSE IF name \in DOMAIN sc[id].content THEN id ELSE 0

\* the scope of the chain from id whose content has the name (0: none)
RECURSIVE DeclaringScope(_, _, _)
DeclaringScope(sc, id, name) ==
  IF name \in DOMAIN sc[id].content THEN id
  ELSE IF sc[id].parent # 0 THEN DeclaringScope(sc, sc[id].parent, name)
  ELSE 0

RECURSIVE RootScope(_, _)
RootScope(sc, id) == IF sc[id].parent = 0 THEN id ELSE RootScope(sc, sc[id].parent)

\* an out that binds an undeclared name in the root scope of the chain
ScopeOutDeclares(sc, glob, id, name, value) ==
  LET d == DeclaringScope(sc, id, name)
      to == IF d # 0 THEN d ELSE RootScope(sc, id)
  IN  [scopes |-> [sc EXCEPT ![to].content = (name :> value) @@ @],
       global |-> glob, value |-> value]

\* Scope.out, and GlobalScope.out at the root of the chain: the scopes, the
\* ambient object and the value out() returns (GlobalScope.out returns
\* nothing after it assigned the ambient object)
ScopeOut(sc, glob, id, name, value) ==
  LET d == DeclaringScope(sc, id, name)
      key == JSToString(name)
  IN  IF d # 0
      THEN [scopes |-> [sc EXCEPT ![d].content[name] = value],
            global |-> glob, value |-> value]
      ELSE IF ~sc[RootScope(sc, id)].global
      THEN [scopes |-> sc, global |-> glob, value |-> Thrown]
      ELSE IF key = Unmodelled
      THEN [scopes |-> sc, global |-> glob, value |-> Unmodelled]
      ELSE [scopes |-> sc, global |-> (key.v :> value) @@ glob,
            value |-> Undefined]

\* Scope.var
ScopeVar(sc, id, name) ==
  [sc EXCEPT ![id].content = (name :> Undefined) @@ @]

\* an array index: the canonical text of a non-negative integer
IsIndex(k) == IsDigits(k) /\ Len(k) <= 4 /\ (k[1] # 48 \/ Len(k) = 1)

\* object[key]
GetResult(hp, object, key) ==
  LET k == JSToString(key)
  IN  IF object.t \in {"undefined", "null"} THEN Thrown
      ELSE IF object.t # "object" \/ k = Unmodelled THEN Unmodelled
      ELSE LET o == hp[object.v[1]]
           IN  IF k.v \in DOMAIN o.props THEN o.props[k.v]
               ELSE IF o.kind = "array" /\ k.v = <<108, 101, 110, 103, 116, 104>>
               THEN Num(o.length)
               ELSE IF IsDigits(k.v) \/ Len(k.v) <= 1 THEN Undefined
               ELSE Unmodelled

\* object[key] = value: the heap afterwards
SetHeap(hp, object, k, value) ==
  LET o == hp[object.v[1]]
      len == IF o.kind = "array" /\ IsIndex(k) /\ DigitsValue(k) >= o.length
             THEN DigitsValue(k) + 1 ELSE o.length
  IN  [hp EXCEPT ![object.v[1]] = [kind |-> o.kind,
                                props |-> (k :> value) @@ o.props,
                                length |-> len]]

\* whether object[key] = value is within the model, or raises
SetResult(hp, object, key, value) ==
  LET k == JSToString(key)
  IN  IF object.t \in {"undefined", "null"} THEN Thrown
      ELSE IF object.t # "object" \/ k = Unmodelled THEN Unmodelled
      ELSE IF hp[object.v[1]].kind = "array" /\ k.v = <<108, 101, 110, 103, 116, 104>>
      THEN Unmodelled
      ELSE value

\* the record delete removes from props
RemoveKey(props, k) == [x \in DOMAIN props \ {k} |-> props[x]]

(***************************************************************************)
(* run(): the frame that runs, the byte it dispatches, its stack.          *)
(***************************************************************************)
Frame == frames[Len(frames)]

\* this.codes[i]: a byte, or NoCode (undefined) outside the array
NoCode == 0 - 1

CodeAt(i) == IF i >= 0 /\ i < Len(codes) THEN codes[i + 1] ELSE NoCode

\* a byte read by loadNumber / loadAddress / loadString: setUint8 and the
\* shift turn undefined into 0
ByteAt(i) == IF i >= 0 /\ i < Len(codes) THEN codes[i + 1] ELSE 0

Code == CodeAt(Frame.pieceOfCode)

Running == phase = "running" /\ steps < MaxSteps

\* Array.prototype.pop: the popped value (undefined on an empty stack)
Last(stack) == IF stack = <<>> THEN Undefined ELSE stack[Len(stack)]

Front(stack) == IF stack = <<>> THEN <<>> ELSE SubSeq(stack, 1, Len(stack) - 1)

\* stack[stack.length - k]
FromTop(stack, k) ==
  IF Len(stack) >= k THEN stack[Len(stack) + 1 - k] ELSE Undefined

\* the value a jump stores in pieceOfCode, as the index the next fetch uses:
\* `codes[pieceOfCode++]` converts it to a number; NaN and negative numbers
\* index no byte
JumpTarget(addr) ==
  LET n == ToNumber(addr)
  IN  IF n = Unmodelled THEN Unmodelled
      ELSE IF n.t = "NaN" \/ n.v[1] < 0 THEN Num(NoCode)
      ELSE n

\* the frame goes on at pc with the given stack
Goto(pc, stack) ==
  frames' = [frames EXCEPT ![Len(frames)] =
               [scope |-> Frame.scope, pieceOfCode |-> pc, stack |-> stack]]

\* the rest of a handler that pushes value on stack: the push, or the end
\* of run() when the value is a raised error or lies outside the model
Push(pc, stack, value) ==
  IF value = Thrown
  THEN phase' = "error" /\ UNCHANGED frames
  ELSE IF value = Unmodelled
  THEN phase' = "unmodelled" /\ UNCHANGED frames
  ELSE phase' = phase /\ Goto(pc, Append(stack, value))

(***************************************************************************)
(* compile(), toNumberArray() and the construction of the root frame.      *)
(***************************************************************************)
Compile ==
  /\ phase = "source"
  /\ compiler' = compile(source)
  /\ phase' = IF compiler'.thrown THEN "error" ELSE "compiled"
  /\ UNCHANGED <<source, codes, frames, scopes, global, heap, closures,
                 result, steps>>

Assemble ==
  /\ phase = "compiled"
  /\ codes' = toNumberArray(compiler.instructions)
  /\ phase' = "assembled"
  /\ UNCHANGED <<source, compiler, frames, scopes, global, heap, closures,
                 result, steps>>

\* new VirtualMachine(new GlobalScope(global), codes): pc = 0, stack = []
Start ==
  /\ phase = "assembled"
  /\ scopes' = <<[parent |-> 0, global |-> TRUE, content |-> <<>>]>>
  /\ frames' = <<[scope |-> 1, pieceOfCode |-> 0, stack |-> <<>>]>>
  /\ phase' = "running"
  /\ UNCHANGED <<source, compiler, codes, global, heap, closures, result,
                 steps>>

(***************************************************************************)
(* run(): one action per case of the dispatch.  pc is pieceOfCode after    *)
(* the fetch `codes[pieceOfCode++]`.                                       *)
(***************************************************************************)
Fetched == Frame.pieceOfCode + 1

Fixed == <<source, compiler, codes>>

StepNop ==
  /\ Running /\ Code = NOP
  /\ Goto(Fetched, Frame.stack)
  /\ steps' = steps + 1
  /\ UNCHANGED <<Fixed, phase, scopes, global, heap, closures, result>>

StepPush ==
  /\ Running /\ Code \in {UNDEF, NULL, TRUE_, FALSE_}
  /\ Push(Fetched, Frame.stack,
          CASE Code = UNDEF -> Undefined
            [] Code = NULL -> Null
            [] Code = TRUE_ -> Bool(TRUE)
            [] Code = FALSE_ -> Bool(FALSE))
  /\ steps' = steps + 1
  /\ UNCHANGED <<Fixed, scopes, global, heap, closures, result>>

\* OBJ pushes {} and ARR pushes []
StepAlloc ==
  /\ Running /\ Code \in {OBJ, ARR}
  /\ heap' = Append(heap, [kind |-> IF Code = ARR THEN "array" ELSE "object",
                           props |-> <<>>, length |-> 0])
  /\ Push(Fetched, Frame.stack, Ref(Len(heap) + 1))
  /\ steps' = steps + 1
  /\ UNCHANGED <<Fixed, scopes, global, closures, result>>

\* loadNumber
StepNum ==
  /\ Running /\ Code = NUM
  /\ Push(Fetched + 8, Frame.stack,
          Float64Value([i \in 1..8 |-> ByteAt(Fetched + i - 1)]))
  /\ steps' = steps + 1
  /\ UNCHANGED <<Fixed, scopes, global, heap, closures, result>>

\* loadAddress: getUint32 of the 4 bytes
StepAddr ==
  /\ Running /\ Code = ADDR
  /\ Push(Fetched + 4, Frame.stack,
          IF ByteAt(Fetched) >= 128 THEN Unmodelled
          ELSE Num(ByteAt(Fetched) * 16777216 + ByteAt(Fetched + 1) * 65536
                   + ByteAt(Fetched + 2) * 256 + ByteAt(Fetched + 3)))
  /\ steps' = steps + 1
  /\ UNCHANGED <<Fixed, scopes, global, heap, closures, result>>

\* loadString: the code units from byte p up to the first 0x0000
RECURSIVE ReadString(_)
ReadString(p) ==
  LET charCode == ByteAt(p) * 256 + ByteAt(p + 1)
  IN  IF charCode = 0 THEN <<>> ELSE <<charCode>> \o ReadString(p + 2)

StepStr ==
  /\ Running /\ Code = STR
  /\ LET str == ReadString(Fetched)
     IN  Push(Fetched + 2 * Len(str) + 2, Frame.stack, Str(str))
  /\ steps' = steps + 1
  /\ UNCHANGED <<Fixed, scopes, global, heap, closures, result>>

StepPop ==
  /\ Running /\ Code = POP
  /\ Goto(Fetched, Front(Frame.stack))
  /\ steps' = steps + 1
  /\ UNCHANGED <<Fixed, phase, scopes, global, heap, closures, result>>

StepTop ==
  /\ Running /\ Code = TOP
  /\ Goto(Fetched, Append(Frame.stack, FromTop(Frame.stack, 1)))
  /\ steps' = steps + 1
  /\ UNCHANGED <<Fixed, phase, scopes, global, heap, closures, result>>

StepTop2 ==
  /\ Running /\ Code = TOP2
  /\ Goto(Fetched, Frame.stack \o <<FromTop(Frame.stack, 2),
                                    FromTop(Frame.stack, 1)>>)
  /\ steps' = steps + 1
  /\ UNCHANGED <<Fixed, phase, scopes, global, heap, closures, result>>

StepVar ==
  /\ Running /\ Code = VAR
  /\ scopes' = ScopeVar(scopes, Frame.scope, Last(Frame.stack))
  /\ Goto(Fetched, Front(Frame.stack))
  /\ steps' = steps + 1
  /\ UNCHANGED <<Fixed, phase, global, heap, closures, result>>

StepLoad ==
  /\ Running /\ Code = LOAD
  /\ Push(Fetched, Front(Frame.stack),
          ScopeLoad(scopes, global, Frame.scope, Last(Frame.stack)))
  /\ steps' = steps + 1
  /\ UNCHANGED <<Fixed, scopes, global, heap, closures, result>>

\* OUT: the first pop is the name, the second the value
StepOut ==
  /\ Running /\ Code = OUT
  /\ LET name == Last(Frame.stack)
         value == Last(Front(Frame.stack))
         out == ScopeOut(scopes, global, Frame.scope, name, value)
     IN  /\ scopes' = out.scopes
         /\ global' = out.global
         /\ Push(Fetched, Front(Front(Frame.stack)), out.value)
  /\ steps' = steps + 1
  /\ UNCHANGED <<Fixed, heap, closures, result>>

\* the rest of a jump handler: pieceOfCode := addr when taken
Jump(taken, addr, stack) ==
  LET target == JumpTarget(addr)
  IN  IF ~taken THEN phase' = phase /\ Goto(Fetched, stack)
      ELSE IF target = Unmodelled THEN phase' = "unmodelled" /\ UNCHANGED frames
      ELSE phase' = phase /\ Goto(target.v[1], stack)

StepJump ==
  /\ Running /\ Code = JUMP
  /\ Jump(TRUE, Last(Frame.stack), Front(Frame.stack))
  /\ steps' = steps + 1
  /\ UNCHANGED <<Fixed, scopes, global, heap, closures, result>>

\* a JUMPIF that pops its operands and never jumps
StepJumpIfFalls ==
  /\ Running /\ Code = JUMPIF
  /\ phase' = phase
  /\ Goto(Fetched, Front(Front(Frame.stack)))
  /\ steps' = steps + 1
  /\ UNCHANGED <<Fixed, scopes, global, heap, closures, result>>

StepJumpIf ==
  /\ Running /\ Code = JUMPIF
  /\ LET addr == Last(Frame.stack)
         test == Last(Front(Frame.stack))
     IN  Jump(ToBoolean(test), addr, Front(Front(Frame.stack)))
  /\ steps' = steps + 1
  /\ UNCHANGED <<Fixed, scopes, global, heap, closures, result>>

StepJumpNot ==
  /\ Running /\ Code = JUMPNOT
  /\ LET addr == Last(Frame.stack)
         test == Last(Front(Frame.stack))
     IN  Jump(~ToBoolean(test), addr, Front(Front(Frame.stack)))
  /\ steps' = steps + 1
  /\ UNCHANGED <<Fixed, scopes, global, heap, closures, result>>

\* FUNC making a function that closes over the root scope instead of the
\* scope of the frame that runs it
StepFuncRoot ==
  /\ Running /\ Code = FUNC
  /\ LET addr == FromTop(Frame.stack, 1)
         len == FromTop(Frame.stack, 2)
         name == FromTop(Frame.stack, 3)
     IN  /\ closures' = Append(closures, [scope |-> 1, addr |-> addr,
                                          len |-> len, name |-> name])
         /\ Push(Fetched, Front(Front(Front(Frame.stack))),
                 Fun(Len(closures) + 1))
  /\ steps' = steps + 1
  /\ UNCHANGED <<Fixed, scopes, global, heap, result>>

\* FUNC: pops the address, the length and the name; pushes the function
StepFunc ==
  /\ Running /\ Code = FUNC
  /\ LET addr == FromTop(Frame.stack, 1)
         len == FromTop(Frame.stack, 2)
         name == FromTop(Frame.stack, 3)
     IN  /\ closures' = Append(closures, [scope |-> Frame.scope, addr |-> addr,
                                          len |-> len, name |-> name])
         /\ Push(Fetched, Front(Front(Front(Frame.stack))),
                 Fun(Len(closures) + 1))
  /\ steps' = steps + 1
  /\ UNCHANGED <<Fixed, scopes, global, heap, result>>

\* the elements func.apply(_this, args) passes: args is null, undefined or
\* an array-like object
ArgumentList(args) ==
  IF args.t \in {"undefined", "null"} THEN <<>>
  ELSE LET o == heap[args.v[1]]
       IN  [i \in 1..o.length |->
              IF Dec(i - 1) \in DOMAIN o.props THEN o.props[Dec(i - 1)]
              ELSE Undefined]

\* the array `...args` of the function FUNC made
RestArray(list) ==
  [kind |-> "array",
   props |-> [k \in {Dec(i - 1) : i \in 1..Len(list)} |->
                list[CHOOSE i \in 1..Len(list) : Dec(i - 1) = k]],
   length |-> Len(list)]

\* CALL of a function whose scope does not bind the function's own name
StepCallUnnamed ==
  /\ Running /\ Code = CALL
  /\ LET args == FromTop(Frame.stack, 1)
         func == FromTop(Frame.stack, 2)
         this == FromTop(Frame.stack, 3)
         rest == Front(Front(Front(Frame.stack)))
         c == closures[func.v[1]]
         entry == IF c.addr = Undefined THEN Num(0) ELSE JumpTarget(c.addr)
     IN  IF func.t # "function"
            \/ args.t \in {"boolean", "number", "NaN", "string"}
         THEN phase' = "error" /\ UNCHANGED <<frames, scopes, heap>>
         ELSE IF args.t = "function" \/ entry = Unmodelled
         THEN phase' = "unmodelled" /\ UNCHANGED <<frames, scopes, heap>>
         ELSE /\ phase' = phase
              /\ scopes' = Append(scopes,
                   [parent |-> c.scope, global |-> FALSE,
                    content |-> (Str(S_this) :> this)])
              /\ heap' = Append(heap, RestArray(ArgumentList(args)))
              /\ frames' = [frames EXCEPT ![Len(frames)] =
                              [scope |-> Frame.scope, pieceOfCode |-> Fetched,
                               stack |-> rest]]
                           \o <<[scope |-> Len(scopes) + 1,
                                 pieceOfCode |-> entry.v[1],
                                 stack |-> <<Ref(Len(heap) + 1)>>]>>
  /\ steps' = steps + 1
  /\ UNCHANGED <<Fixed, global, closures, result>>

\* CALL that passes no receiver: `this` is null in every callee
StepCallNoReceiver ==
  /\ Running /\ Code = CALL
  /\ LET args == FromTop(Frame.stack, 1)
         func == FromTop(Frame.stack, 2)
         this == Null
         rest == Front(Front(Front(Frame.stack)))
         c == closures[func.v[1]]
         named == IF ToBoolean(c.name) THEN (c.name :> func) ELSE <<>>
         entry == IF c.addr = Undefined THEN Num(0) ELSE JumpTarget(c.addr)
     IN  IF func.t # "function"
            \/ args.t \in {"boolean", "number", "NaN", "string"}
         THEN phase' = "error" /\ UNCHANGED <<frames, scopes, heap>>
         ELSE IF args.t = "function" \/ entry = Unmodelled
         THEN phase' = "unmodelled" /\ UNCHANGED <<frames, scopes, heap>>
         ELSE /\ phase' = phase
              /\ scopes' = Append(scopes,
                   [parent |-> c.scope, global |-> FALSE,
                    content |-> named @@ (Str(S_this) :> this)])
              /\ heap' = Append(heap, RestArray(ArgumentList(args)))
              /\ frames' = [frames EXCEPT ![Len(frames)] =
                              [scope |-> Frame.scope, pieceOfCode |-> Fetched,
                               stack |-> rest]]
                           \o <<[scope |-> Len(scopes) + 1,
                                 pieceOfCode |-> entry.v[1],
                                 stack |-> <<Ref(Len(heap) + 1)>>]>>
  /\ steps' = steps + 1
  /\ UNCHANGED <<Fixed, global, closures, result>>

\* CALL: func.apply(_this, args) builds the callee's scope and runs a new
\* VirtualMachine on [args]; its RET pushes the result here
StepCall ==
  /\ Running /\ Code = CALL
  /\ LET args == FromTop(Frame.stack, 1)
         func == FromTop(Frame.stack, 2)
         this == FromTop(Frame.stack, 3)
         rest == Front(Front(Front(Frame.stack)))
         c == closures[func.v[1]]
         named == IF ToBoolean(c.name) THEN (c.name :> func) ELSE <<>>
         entry == IF c.addr = Undefined THEN Num(0) ELSE JumpTarget(c.addr)
     IN  IF func.t # "function"
            \/ args.t \in {"boolean", "number", "NaN", "string"}
         THEN phase' = "error" /\ UNCHANGED <<frames, scopes, heap>>
         ELSE IF args.t = "function" \/ entry = Unmodelled
         THEN phase' = "unmodelled" /\ UNCHANGED <<frames, scopes, heap>>
         ELSE /\ phase' = phase
              /\ scopes' = Append(scopes,
                   [parent |-> c.scope, global |-> FALSE,
                    content |-> named @@ (Str(S_this) :> this)])
              /\ heap' = Append(heap, RestArray(ArgumentList(args)))
              /\ frames' = [frames EXCEPT ![Len(frames)] =
                              [scope |-> Frame.scope, pieceOfCode |-> Fetched,
                               stack |-> rest]]
                           \o <<[scope |-> Len(scopes) + 1,
                                 pieceOfCode |-> entry.v[1],
                                 stack |-> <<Ref(Len(heap) + 1)>>]>>
  /\ steps' = steps + 1
  /\ UNCHANGED <<Fixed, global, closures, result>>

\* NEW: the host's construction of an object is outside the model
StepNew ==
  /\ Running /\ Code = NEW_
  /\ phase' = "unmodelled"
  /\ steps' = steps + 1
  /\ UNCHANGED <<Fixed, frames, scopes, global, heap, closures, result>>

\* RET on an operand stack the frames share: what the callee left becomes
\* part of the caller's stack
StepRetShared ==
  /\ Running /\ Code = RET
  /\ LET caller == frames[Len(frames) - 1]
     IN  IF Len(frames) = 1
         THEN /\ phase' = "done"
              /\ result' = Last(Frame.stack)
              /\ Goto(Fetched, Front(Frame.stack))
         ELSE /\ phase' = phase
              /\ result' = result
              /\ frames' = [SubSeq(frames, 1, Len(frames) - 1)
                              EXCEPT ![Len(frames) - 1] =
                                [scope |-> caller.scope,
                                 pieceOfCode |-> caller.pieceOfCode,
                                 stack |-> caller.stack \o Frame.stack]]
  /\ steps' = steps + 1
  /\ UNCHANGED <<Fixed, scopes, global, heap, closures>>

\* RET: run() returns the popped value: to the embedder from the root
\* frame, to the CALL handler of the calling frame otherwise
StepRet ==
  /\ Running /\ Code = RET
  /\ LET value == Last(Frame.stack)
         caller == frames[Len(frames) - 1]
     IN  IF Len(frames) = 1
         THEN /\ phase' = "done"
              /\ result' = value
              /\ Goto(Fetched, Front(Frame.stack))
         ELSE /\ phase' = phase
              /\ result' = result
              /\ frames' = [SubSeq(frames, 1, Len(frames) - 1)
                              EXCEPT ![Len(frames) - 1] =
                                [scope |-> caller.scope,
                                 pieceOfCode |-> caller.pieceOfCode,
                                 stack |-> Append(caller.stack, value)]]
  /\ steps' = steps + 1
  /\ UNCHANGED <<Fixed, scopes, global, heap, closures>>

StepGet ==
  /\ Running /\ Code = GET
  /\ LET key == FromTop(Frame.stack, 1)
         object == FromTop(Frame.stack, 2)
     IN  Push(Fetched, Front(Front(Frame.stack)), GetResult(heap, object, key))
  /\ steps' = steps + 1
  /\ UNCHANGED <<Fixed, scopes, global, heap, closures, result>>

StepSet ==
  /\ Running /\ Code = SET
  /\ LET value == FromTop(Frame.stack, 1)
         key == FromTop(Frame.stack, 2)
         object == FromTop(Frame.stack, 3)
         res == SetResult(heap, object, key, value)
     IN  /\ heap' = IF res \in {Thrown, Unmodelled} THEN heap
                    ELSE SetHeap(heap, object, JSToString(key).v, value)
         /\ Push(Fetched, Front(Front(Front(Frame.stack))), res)
  /\ steps' = steps + 1
  /\ UNCHANGED <<Fixed, scopes, global, closures, result>>

\* key in object
InResult(hp, object, key) ==
  LET k == JSToString(key)
  IN  IF object.t # "object" /\ object.t # "function" THEN Thrown
      ELSE IF object.t = "function" \/ k = Unmodelled THEN Unmodelled
      ELSE LET o == hp[object.v[1]]
           IN  IF k.v \in DOMAIN o.props THEN Bool(TRUE)
               ELSE IF o.kind = "array" /\ k.v = <<108, 101, 110, 103, 116, 104>>
               THEN Bool(TRUE)
               ELSE IF IsDigits(k.v) \/ Len(k.v) <= 1 THEN Bool(FALSE)
               ELSE Unmodelled

StepIn ==
  /\ Running /\ Code = IN_
  /\ LET key == FromTop(Frame.stack, 1)
         object == FromTop(Frame.stack, 2)
     IN  Push(Fetched, Front(Front(Frame.stack)), InResult(heap, object, key))
  /\ steps' = steps + 1
  /\ UNCHANGED <<Fixed, scopes, global, heap, closures, result>>

\* delete object[key]
DeleteResult(hp, object, key) ==
  LET k == JSToString(key)
  IN  IF object.t \in {"undefined", "null"} THEN Thrown
      ELSE IF object.t # "object" \/ k = Unmodelled THEN Unmodelled
      ELSE IF hp[object.v[1]].kind = "array" /\ k.v = <<108, 101, 110, 103, 116, 104>>
      THEN Unmodelled
      ELSE Bool(TRUE)

\* DELETE has no break: after pushing the result of delete, control falls
\* into the case of EQ, which pops two values and pushes their ==
StepDelete ==
  /\ Running /\ Code = DELETE
  /\ LET key == FromTop(Frame.stack, 1)
         object == FromTop(Frame.stack, 2)
         deleted == DeleteResult(heap, object, key)
         afterDelete == Append(Front(Front(Frame.stack)), deleted)
         right == FromTop(afterDelete, 1)
         left == FromTop(afterDelete, 2)
     IN  /\ heap' = IF deleted \in {Thrown, Unmodelled} THEN heap
                    ELSE [heap EXCEPT ![object.v[1]].props =
                            RemoveKey(@, JSToString(key).v)]
         /\ Push(Fetched, Front(Front(afterDelete)),
                 IF deleted \in {Thrown, Unmodelled} THEN deleted
                 ELSE LooseEquals(left, right))
  /\ steps' = steps + 1
  /\ UNCHANGED <<Fixed, scopes, global, closures, result>>

StepBinary ==
  /\ Running /\ Code \in BinaryCodes
  /\ LET right == FromTop(Frame.stack, 1)
         left == FromTop(Frame.stack, 2)
     IN  Push(Fetched, Front(Front(Frame.stack)),
              BinaryResult(Code, left, right))
  /\ steps' = steps + 1
  /\ UNCHANGED <<Fixed, scopes, global, heap, closures, result>>

StepUnary ==
  /\ Running /\ Code \in UnaryCodes
  /\ Push(Fetched, Front(Frame.stack), UnaryResult(Code, Last(Frame.stack)))
  /\ steps' = steps + 1
  /\ UNCHANGED <<Fixed, scopes, global, heap, closures, result>>

OpCodes ==
  {NOP, UNDEF, NULL, OBJ, ARR, TRUE_, FALSE_, NUM, ADDR, STR, POP, TOP, TOP2,
   VAR, LOAD, OUT, JUMP, JUMPIF, JUMPNOT, FUNC, CALL, NEW_, RET, GET, SET,
   IN_, DELETE} \cup BinaryCodes \cup UnaryCodes

\* a dispatch that skips a byte that is no opcode
StepDefaultSkips ==
  /\ Running /\ Code \notin OpCodes
  /\ Goto(Fetched, Frame.stack)
  /\ steps' = steps + 1
  /\ UNCHANGED <<Fixed, phase, scopes, global, heap, closures, result>>

\* default: a byte that is no opcode, or no byte at all, raises an Error
StepDefault ==
  /\ Running /\ Code \notin OpCodes
  /\ phase' = "error"
  /\ steps' = steps + 1
  /\ UNCHANGED <<Fixed, frames, scopes, global, heap, closures, result>>

(***************************************************************************)
(* The programs compiled and run: the tree acorn hands to the parser.      *)
(* Every program is a prelude                                              *)
(*     var x = 5; var o = {p: 5}; var r = 0;                               *)
(* followed by optional function declarations and the statement under      *)
(* study, which is last.                                                   *)
(***************************************************************************)
Literal(value) == [type |-> "Literal", value |-> value]

Identifier(name) == [type |-> "Identifier", name |-> name]

ExpressionStatement(e) == [type |-> "ExpressionStatement", expression |-> e]

Declarator(name, init) ==
  [type |-> "VariableDeclarator", id |-> Identifier(name), init |-> init]

VariableDeclaration(declarators) ==
  [type |-> "VariableDeclaration", declarations |-> declarators]

\* BinaryExpression, AssignmentExpression, LogicalExpression
Infix(type, operator, left, right) ==
  [type |-> type, operator |-> operator, left |-> left, right |-> right]

Unary(operator, argument) ==
  [type |-> "UnaryExpression", operator |-> operator, prefix |-> TRUE,
   argument |-> argument]

Update(operator, prefix, argument) ==
  [type |-> "UpdateExpression", operator |-> operator, prefix |-> prefix,
   argument |-> argument]

Conditional(test, consequent, alternate) ==
  [type |-> "ConditionalExpression", test |-> test, consequent |-> consequent,
   alternate |-> alternate]

Sequence(expressions) ==
  [type |-> "SequenceExpression", expressions |-> expressions]

\* object.name
Member(object, name) ==
  [type |-> "MemberExpression", object |-> object,
   property |-> Identifier(name), computed |-> FALSE]

\* CallExpression, NewExpression
Invoke(type, callee, arguments) ==
  [type |-> type, callee |-> callee, arguments |-> arguments]

Block(body) == [type |-> "BlockStatement", body |-> body]

While(test, body) == [type |-> "WhileStatement", test |-> test, body |-> body]

SwitchCase(test, consequent) ==
  [type |-> "SwitchCase", test |-> test, consequent |-> consequent]

Switch(discriminant, cases) ==
  [type |-> "SwitchStatement", discriminant |-> discriminant, cases |-> cases]

Break == [type |-> "BreakStatement", label |-> Absent]

Continue == [type |-> "ContinueStatement", label |-> Absent]

\* function name(params) { return argument; }
FunctionDeclaration(name, params, argument) ==
  [type |-> "FunctionDeclaration", id |-> Identifier(name), params |-> params,
   body |-> Block(<<[type |-> "ReturnStatement", argument |-> argument]>>)]

N_a == <<97>>
N_b == <<98>>
N_f == <<102>>
N_o == <<111>>
N_p == <<112>>
N_r == <<114>>
N_x == <<120>>
N_switch_case_3 == S_switch_case \o <<95, 51>>

X == Identifier(N_x)
R == Identifier(N_r)
OP == Member(Identifier(N_o), N_p)

Prelude ==
  <<VariableDeclaration(<<Declarator(N_x, Literal(Num(5)))>>),
    VariableDeclaration(<<Declarator(N_o,
      [type |-> "ObjectExpression",
       properties |-> <<[type |-> "Property", key |-> Identifier(N_p),
                         value |-> Literal(Num(5)), computed |-> FALSE,
                         kind |-> "init"]>>])>>),
    VariableDeclaration(<<Declarator(N_r, Literal(Num(0)))>>)>>

Program(functions, statement) ==
  [type |-> "Program", body |-> Prelude \o functions \o <<statement>>]

\* r = 7 + e;
Observe(e) ==
  ExpressionStatement(Infix("AssignmentExpression", "=", R,
    Infix("BinaryExpression", "+", Literal(Num(7)), e)))

\* r = r + n;
Mark(n) ==
  ExpressionStatement(Infix("AssignmentExpression", "=", R,
    Infix("BinaryExpression", "+", R, Literal(Num(n)))))

\* the expressions under study, over the literals k and m
Expressions(k, m) ==
  <<Literal(Num(k)),
    Infix("LogicalExpression", "&&", Literal(Num(k)),
          Infix("AssignmentExpression", "=", X, Literal(Num(m)))),
    Infix("LogicalExpression", "||", Literal(Num(k)),
          Infix("AssignmentExpression", "=", X, Literal(Num(m)))),
    Conditional(Literal(Num(k)), Literal(Num(m)), Literal(Num(m + 3))),
    Infix("AssignmentExpression", "+=", X, Literal(Num(k))),
    Infix("AssignmentExpression", "-=", X, Literal(Num(k))),
    Update("++", FALSE, X),
    Update("--", FALSE, X),
    Update("++", TRUE, X),
    Update("--", TRUE, X),
    Update("++", FALSE, OP),
    Update("--", FALSE, OP),
    Update("++", TRUE, OP),
    Update("--", TRUE, OP),
    Sequence(<<Literal(Num(k)), Literal(Num(m))>>),
    Infix("BinaryExpression", "-", X, Literal(Num(k))),
    Infix("BinaryExpression", "in", Literal(Str(N_p)), Identifier(N_o)),
    Unary("delete", OP),
    Unary("!", Literal(Num(k))),
    Infix("AssignmentExpression", "-=", OP, Literal(Num(k))),
    Invoke("CallExpression", Identifier(N_f), <<Literal(Num(k))>>),
    Invoke("NewExpression", Identifier(N_f), <<>>)>>

\* function f(a) { return a + 1; }
DeclareF ==
  <<FunctionDeclaration(N_f, <<Identifier(N_a)>>,
      Infix("BinaryExpression", "+", Identifier(N_a), Literal(Num(1))))>>

\* the clauses of a switch: `case 1` and `case 2` in this order with the
\* default clause at position pos (0: no default); position 4 is the three
\* clauses `case 0`, `case 1`, `case 2`.  The clause at position j adds
\* 10^(j-1) to r, and ends with `break` when brk.
SwitchClauses(pos, brk) ==
  LET body(n) == IF brk THEN <<Mark(n), Break>> ELSE <<Mark(n)>>
      case(t, n) == SwitchCase(Literal(Num(t)), body(n))
      default(n) == SwitchCase(Absent, body(n))
  IN  CASE pos = 0 -> <<case(1, 1), case(2, 10)>>
        [] pos = 1 -> <<default(1), case(1, 10), case(2, 100)>>
        [] pos = 2 -> <<case(1, 1), default(10), case(2, 100)>>
        [] pos = 3 -> <<case(1, 1), case(2, 10), default(100)>>
        [] OTHER -> <<case(0, 1), case(1, 10), case(2, 100)>>

\* the statements under study, over the literals k and m
Statements(k, m) ==
  <<VariableDeclaration(<<Declarator(N_a, Absent)>>),
    VariableDeclaration(<<Declarator(N_a, Literal(Num(k)))>>),
    VariableDeclaration(<<Declarator(N_a, Literal(Num(k))),
                          Declarator(N_b, Literal(Num(m)))>>),
    While(Infix("BinaryExpression", "<", X, Literal(Num(5 + k))),
          ExpressionStatement(Update("++", TRUE, X))),
    While(Infix("BinaryExpression", "<", X, Literal(Num(5 + k))),
          Block(<<ExpressionStatement(Update("++", TRUE, X)), Break>>)),
    While(Infix("BinaryExpression", "<", X, Literal(Num(5 + k))),
          Block(<<ExpressionStatement(Update("++", TRUE, X)), Continue>>)),
    Switch(Literal(Num(k)), SwitchClauses(m, FALSE)),
    Switch(Literal(Num(k)), SwitchClauses(m, TRUE))>>

\* function switch_case_3() { return 1; }
DeclareSwitchCase3 == <<FunctionDeclaration(N_switch_case_3, <<>>, Literal(Num(1)))>>

MaxPos == 4

(***************************************************************************)
(* Whole programs: the prelude, declarations, and the statement under      *)
(* study last.                                                             *)
(***************************************************************************)
\* FunctionDeclaration, FunctionExpression: function id(params) { body }
Function(type, id, params, body) ==
  [type |-> type, id |-> id, params |-> params, body |-> Block(body)]

Return(argument) == [type |-> "ReturnStatement", argument |-> argument]

If(test, consequent, alternate) ==
  [type |-> "IfStatement", test |-> test, consequent |-> consequent,
   alternate |-> alternate]

Assign(left, right) == Infix("AssignmentExpression", "=", left, right)

Call(callee, arguments) == Invoke("CallExpression", callee, arguments)

\* switch (k) { case 0: r = r + 1; }
SmallSwitch(k) ==
  Switch(Literal(Num(k)), <<SwitchCase(Literal(Num(0)), <<Mark(1)>>)>>)

\* loops whose body ends with a jump that follows a completed statement
Loops(k) ==
  LET test == Infix("BinaryExpression", "<", X, Literal(Num(6)))
      step == ExpressionStatement(Update("++", TRUE, X))
  IN  <<\* while (x < 6) { ++x; switch (k) { case 0: r = r + 1; } break; }
        While(test, Block(<<step, SmallSwitch(k), Break>>)),
        \* while (x < 6) { ++x; switch (k) { case 0: r = r + 1; } continue; }
        While(test, Block(<<step, SmallSwitch(k), Continue>>)),
        \* while (x < 6) { ++x; while (r < k) r = r + 1; break; }
        While(test, Block(<<step,
          While(Infix("BinaryExpression", "<", R, Literal(Num(k))), Mark(1)),
          Break>>)),
        \* while (x < 6) { ++x; while (r < k) r = r + 1; continue; }
        While(test, Block(<<step,
          While(Infix("BinaryExpression", "<", R, Literal(Num(k))), Mark(1)),
          Continue>>))>>

N_g == <<103>>

\* function g(a) { x = a; 0, 0; }  g(k);
Falls(k) ==
  Program(<<Function("FunctionDeclaration", Identifier(N_g), <<Identifier(N_a)>>,
              <<ExpressionStatement(Assign(X, Identifier(N_a))),
                ExpressionStatement(Sequence(<<Literal(Num(0)),
                                               Literal(Num(0))>>))>>)>>,
          ExpressionStatement(Call(Identifier(N_g), <<Literal(Num(k))>>)))

\* var x = 1; x + 2;
Scenario1 ==
  [type |-> "Program",
   body |-> <<VariableDeclaration(<<Declarator(N_x, Literal(Num(1)))>>),
              ExpressionStatement(Infix("BinaryExpression", "+", X,
                                        Literal(Num(2))))>>]

N_h == <<104>>

\* programs that read a variable before the statement that declares it
Hoists(k) ==
  LET A == Identifier(N_a)
      B == Identifier(N_b)
      declare == VariableDeclaration(<<Declarator(N_a, Literal(Num(1)))>>)
      read == ExpressionStatement(Assign(R, Unary("typeof", A)))
      h(params, body) ==
        <<Function("FunctionDeclaration", Identifier(N_h), params, body)>>
      call == ExpressionStatement(Assign(X, Call(Identifier(N_h),
                                                 <<Literal(Num(k))>>)))
  IN  <<\* r = typeof a; if (k) { var a = 1; }
        Program(<<read>>, If(Literal(Num(k)), Block(<<declare>>), Absent)),
        \* function h(b) { r = typeof a; while (b < 1) { var a = 1; b = 5; }
        \*                 return a; }  x = h(k);
        Program(h(<<B>>, <<read,
                           While(Infix("BinaryExpression", "<", B,
                                       Literal(Num(1))),
                                 Block(<<declare,
                                         ExpressionStatement(
                                           Assign(B, Literal(Num(5))))>>)),
                           Return(A)>>),
                call),
        \* function h(a) { var a; return a; }  x = h(k);
        Program(h(<<A>>, <<VariableDeclaration(<<Declarator(N_a, Absent)>>),
                           Return(A)>>),
                call)>>

N_c == <<99>>

\* function f(a) { var c = a; o.p = function () { c = c + 1; };
\*                 return function () { return c; }; }
Counter ==
  LET C == Identifier(N_c)
      anonymous(body) == Function("FunctionExpression", Absent, <<>>, body)
  IN  Function("FunctionDeclaration", Identifier(N_f), <<Identifier(N_a)>>,
        <<VariableDeclaration(<<Declarator(N_c, Identifier(N_a))>>),
          ExpressionStatement(Assign(OP,
            anonymous(<<ExpressionStatement(Assign(C,
                          Infix("BinaryExpression", "+", C,
                                Literal(Num(1)))))>>))),
          Return(anonymous(<<Return(C)>>))>>)

\* programs that use closures after the frame that made them has returned
Closures(k) ==
  LET make(target, n) ==
        ExpressionStatement(Assign(target, Call(Identifier(N_f),
                                                <<Literal(Num(n))>>)))
      bump == ExpressionStatement(Call(OP, <<>>))
  IN  <<\* x = f(k); o.p(); r = x();
        Program(<<Counter, make(X, k), bump>>,
                ExpressionStatement(Assign(R, Call(X, <<>>)))),
        \* x = f(k); r = f(7); o.p(); x = x() * 10 + r();
        Program(<<Counter, make(X, k), make(R, 7), bump>>,
                ExpressionStatement(Assign(X,
                  Infix("BinaryExpression", "+",
                        Infix("BinaryExpression", "*", Call(X, <<>>),
                              Literal(Num(10))),
                        Call(R, <<>>)))))>>

\* programs with the named function expression `function g() { return g; }`
SelfNamed ==
  LET G == Identifier(N_g)
      named == Function("FunctionExpression", G, <<>>, <<Return(G)>>)
      keep == ExpressionStatement(Assign(X, named))
  IN  <<\* x = function g() { return g; };  r = x();
        Program(<<keep>>, ExpressionStatement(Assign(R, Call(X, <<>>)))),
        \* x = function g() { return g; };  x();  r = g;
        Program(<<keep, ExpressionStatement(Call(X, <<>>))>>,
                ExpressionStatement(Assign(R, G)))>>

\* object[property]
Computed(object, property) ==
  [type |-> "MemberExpression", object |-> object, property |-> property,
   computed |-> TRUE]

\* compound assignments to a member whose object or key has a side effect
MemberUpdates(k) ==
  LET count == Assign(R, Infix("BinaryExpression", "+", R, Literal(Num(1))))
      O == Identifier(N_o)
  IN  <<\* o[1] = 5;  o[r = r + 1] += k;
        Program(<<ExpressionStatement(Assign(Computed(O, Literal(Num(1))),
                                             Literal(Num(5))))>>,
                ExpressionStatement(Infix("AssignmentExpression", "+=",
                                          Computed(O, count), Literal(Num(k))))),
        \* function f() { r = r + 1; return o; }  f().p -= k;
        Program(<<Function("FunctionDeclaration", Identifier(N_f), <<>>,
                           <<ExpressionStatement(count), Return(O)>>)>>,
                ExpressionStatement(Infix("AssignmentExpression", "-=",
                                          Member(Call(Identifier(N_f), <<>>), N_p),
                                          Literal(Num(k)))))>>

\* calls whose object expression or key has a side effect, and a plain call
Receivers(k) ==
  LET count == Assign(R, Infix("BinaryExpression", "+", R, Literal(Num(1))))
      O == Identifier(N_o)
      A == Identifier(N_a)
      This == [type |-> "ThisExpression"]
      \* { o[1] = a; return this; }
      body == <<ExpressionStatement(Assign(Computed(O, Literal(Num(1))), A)),
                Return(This)>>
      method == Function("FunctionExpression", Absent, <<A>>, body)
      returnsO == Function("FunctionDeclaration", Identifier(N_f), <<>>,
                           <<ExpressionStatement(count), Return(O)>>)
      keep(call) == ExpressionStatement(Assign(X, call))
  IN  <<\* function f() { r = r + 1; return o; }
        \* o.p = function (a) { o[1] = a; return this; };  x = f().p(k);
        Program(<<returnsO, ExpressionStatement(Assign(OP, method))>>,
                keep(Call(Member(Call(Identifier(N_f), <<>>), N_p),
                          <<Literal(Num(k))>>))),
        \* o[2] = function (a) { o[1] = a; return this; };
        \* x = o[r = r + 2](k);
        Program(<<ExpressionStatement(Assign(Computed(O, Literal(Num(2))),
                                             method))>>,
                keep(Call(Computed(O, Assign(R, Infix("BinaryExpression", "+",
                                                       R, Literal(Num(2))))),
                          <<Literal(Num(k))>>))),
        \* function h(a) { o[1] = a; return this; }  x = h(k);
        Program(<<Function("FunctionDeclaration", Identifier(N_h), <<A>>,
                           body)>>,
                keep(Call(Identifier(N_h), <<Literal(Num(k))>>)))>>

\* 999 ? 0 : 1;   (the lowering jumps to the address 999, which the code
\* buffer does not have)
RunsPastEnd ==
  Program(<<>>, ExpressionStatement(Conditional(Literal(Num(999)),
                                                Literal(Num(0)),
                                                Literal(Num(1)))))

\* r = 3 << k;  r = 3 & k;  o.p <<= k;  o.p &= k;
Shifts(k) ==
  LET by(type, operator, left) ==
        ExpressionStatement(Infix(type, operator, left, Literal(Num(k))))
      keep(operator) ==
        ExpressionStatement(Assign(R, Infix("BinaryExpression", operator,
                                            Literal(Num(3)), Literal(Num(k)))))
  IN  <<Program(<<>>, keep("<<")),
        Program(<<>>, keep("&")),
        Program(<<>>, by("AssignmentExpression", "<<=", OP)),
        Program(<<>>, by("AssignmentExpression", "&=", OP))>>

For(init, test, update, body) ==
  [type |-> "ForStatement", init |-> init, test |-> test, update |-> update,
   body |-> body]

\* for loops over x from k, counting the runs of the body in r
Fors(k) ==
  LET init == Assign(X, Literal(Num(k)))
      test == Infix("BinaryExpression", "<", X, Literal(Num(2)))
      step == Update("++", TRUE, X)
  IN  <<\* for (x = k; x < 2; ++x) r = r + 1;
        Program(<<>>, For(init, test, step, Mark(1))),
        \* for (x = k; ; ++x) { r = r + 1; if (x) break; }
        Program(<<>>, For(init, Absent, step,
                          Block(<<Mark(1), If(X, Break, Absent)>>))),
        \* for (x = k; x < 2; ++x) { r = r + 1; continue; r = r + 10; }
        Program(<<>>, For(init, test, step,
                          Block(<<Mark(1), Continue, Mark(10)>>))),
        \* for (; x < 7 + k; ) { ++x; r = r + 1; }
        Program(<<>>, For(Absent,
                          Infix("BinaryExpression", "<", X, Literal(Num(7 + k))),
                          Absent,
                          Block(<<ExpressionStatement(step), Mark(1)>>)))>>

\* string literals as statements: "p", "", "p" with U+0100 + k, two code
\* units above U+00FF, the surrogate pair of U+1F600, a low surrogate alone
Strings(k) ==
  LET literal(str) == Program(<<>>, ExpressionStatement(Literal(Str(str))))
  IN  <<literal(N_p), literal(<<>>), literal(<<112, 256 + k>>),
        literal(<<233, 20013>>), literal(<<55357, 56832>>),
        literal(<<56832>>)>>

N_d == <<100>>
N_e == <<101>>
N_j == <<106>>

\* function f(a) { var b = k; function g() { var c; }
\*                 var e = function h() { var d; }; while (0) { var d; } }
\* var j = function () { var b; };
Nests(k) ==
  LET var(name) == VariableDeclaration(<<Declarator(name, Absent)>>)
      g == Function("FunctionDeclaration", Identifier(N_g), <<>>, <<var(N_c)>>)
      h == Function("FunctionExpression", Identifier(N_h), <<>>, <<var(N_d)>>)
      f == Function("FunctionDeclaration", Identifier(N_f), <<Identifier(N_a)>>,
             <<VariableDeclaration(<<Declarator(N_b, Literal(Num(k)))>>), g,
               VariableDeclaration(<<Declarator(N_e, h)>>),
               While(Literal(Num(0)), Block(<<var(N_d)>>))>>)
      j == Function("FunctionExpression", Absent, <<>>, <<var(N_b)>>)
  IN  <<Program(<<f>>, VariableDeclaration(<<Declarator(N_j, j)>>))>>

\* programs with a node the pre-pass refuses, at the root, in a loop body
\* and in the body of a function expression
Unsupported(k) ==
  LET throw == [type |-> "ThrowStatement", argument |-> Literal(Num(k))]
      labeled == [type |-> "LabeledStatement", label |-> Identifier(N_a),
                  body |-> Mark(k)]
      try == [type |-> "TryStatement", block |-> Block(<<Mark(k)>>),
              handler |-> Absent, finalizer |-> Block(<<>>)]
      forIn == [type |-> "ForInStatement", left |-> X, right |-> Identifier(N_o),
                body |-> Mark(k)]
  IN  <<Program(<<>>, throw), Program(<<>>, labeled),
        Program(<<>>, While(Literal(Num(0)), Block(<<try>>))),
        Program(<<>>, ExpressionStatement(Assign(R,
          Function("FunctionExpression", Absent, <<>>, <<forIn>>))))>>

N_y == <<121>>

\* programs that assign and read y, a name no scope declares
Ambient(k) ==
  LET Y == Identifier(N_y)
      A == Identifier(N_a)
      set == Assign(Y, Literal(Num(k)))
  IN  <<\* r = y = k;
        Program(<<>>, ExpressionStatement(Assign(R, set))),
        \* function h(a) { return y = a; }  r = h(k);
        Program(<<Function("FunctionDeclaration", Identifier(N_h), <<A>>,
                           <<Return(Assign(Y, A))>>)>>,
                ExpressionStatement(Assign(R, Call(Identifier(N_h),
                                                   <<Literal(Num(k))>>)))),
        \* y = k;  r = y;
        Program(<<ExpressionStatement(set)>>, ExpressionStatement(Assign(R, Y))),
        \* function h(a) { y = a; return y; }  r = h(k);
        Program(<<Function("FunctionDeclaration", Identifier(N_h), <<A>>,
                           <<ExpressionStatement(Assign(Y, A)), Return(Y)>>)>>,
                ExpressionStatement(Assign(R, Call(Identifier(N_h),
                                                   <<Literal(Num(k))>>)))),
        \* r = y;
        Program(<<>>, ExpressionStatement(Assign(R, Y))),
        \* function h(a) { return y; }  r = h(k);
        Program(<<Function("FunctionDeclaration", Identifier(N_h), <<A>>,
                           <<Return(Y)>>)>>,
                ExpressionStatement(Assign(R, Call(Identifier(N_h),
                                                   <<Literal(Num(k))>>))))>>

N_fact == <<102, 97, 99, 116>>
N_n == <<110>>

\* n < 2, n * fact(n - 1)
FactTest == Infix("BinaryExpression", "<", Identifier(N_n), Literal(Num(2)))
FactStep ==
  Infix("BinaryExpression", "*", Identifier(N_n),
        Call(Identifier(N_fact),
             <<Infix("BinaryExpression", "-", Identifier(N_n),
                     Literal(Num(1)))>>))

\* function fact(n) { return n < 2 ? 1 : n * fact(n - 1); }
Fact ==
  Function("FunctionDeclaration", Identifier(N_fact), <<Identifier(N_n)>>,
           <<Return(Conditional(FactTest, Literal(Num(1)), FactStep))>>)

\* function fact(n) { if (n < 2) return 1; return n * fact(n - 1); }
FactIf ==
  Function("FunctionDeclaration", Identifier(N_fact), <<Identifier(N_n)>>,
           <<If(FactTest, Return(Literal(Num(1))), Absent),
             Return(FactStep)>>)

\* function fact(n) { return n < 2 ? 1 : n * fact(n - 1); }  fact(5);
Scenario3 ==
  [type |-> "Program",
   body |-> <<Fact, ExpressionStatement(Call(Identifier(N_fact),
                                             <<Literal(Num(5))>>))>>]

\* r = fact(n);
CallFact(n) ==
  ExpressionStatement(Assign(R, Call(Identifier(N_fact), <<Literal(Num(n))>>)))

\* programs that call a function which calls itself
Recursion(k) ==
  <<Scenario3,
    Program(<<Fact>>, CallFact(k)),
    Program(<<FactIf>>, CallFact(k)),
    Program(<<FactIf>>, CallFact(k + 3))>>

\* programs whose last statement `x = callee(literals)` makes the only
\* invocation that statement runs
Entries(k) ==
  LET A == Identifier(N_a)
      B == Identifier(N_b)
      H == Identifier(N_h)
      declared(params, body) == Function("FunctionDeclaration", H, params, body)
      invoke(callee, values) ==
        ExpressionStatement(Assign(X,
          Call(callee, [i \in 1..Len(values) |-> Literal(Num(values[i]))])))
  IN  <<\* function h(a, b) { return b; }  x = h(k);
        Program(<<declared(<<A, B>>, <<Return(B)>>)>>, invoke(H, <<k>>)),
        \* function h(a, b) { return a; }  x = h(7, k, 9);
        Program(<<declared(<<A, B>>, <<Return(A)>>)>>, invoke(H, <<7, k, 9>>)),
        \* function h(a) { return a; }  x = h();
        Program(<<declared(<<A>>, <<Return(A)>>)>>, invoke(H, <<>>)),
        \* o.p = function (a) { return this; };  x = o.p(k);
        Program(<<ExpressionStatement(Assign(OP,
                    Function("FunctionExpression", Absent, <<A>>,
                             <<Return([type |-> "ThisExpression"])>>)))>>,
                invoke(OP, <<k>>)),
        \* function h(a) { return function (b) { return a; }; }
        \* x = h(k);  x = x(7);
        Program(<<declared(<<A>>,
                    <<Return(Function("FunctionExpression", Absent, <<B>>,
                                      <<Return(A)>>))>>),
                  invoke(H, <<k>>)>>,
                invoke(X, <<7>>)),
        \* function h(a) { var a; return a; }  x = h(k);
        Program(<<declared(<<A>>,
                    <<VariableDeclaration(<<Declarator(N_a, Absent)>>),
                      Return(A)>>)>>,
                invoke(H, <<k>>))>>

\* functions whose body declares a name that is also a parameter, called by
\* the last statement
Redeclares(k) ==
  LET A == Identifier(N_a)
      B == Identifier(N_b)
      H == Identifier(N_h)
      var(name) == VariableDeclaration(<<Declarator(name, Absent)>>)
      declared(params, body) == Function("FunctionDeclaration", H, params, body)
      invoke(values) ==
        ExpressionStatement(Assign(X,
          Call(H, [i \in 1..Len(values) |-> Literal(Num(values[i]))])))
  IN  <<\* function h(a, b) { var b; return b; }  x = h(7, k);
        Program(<<declared(<<A, B>>, <<var(N_b), Return(B)>>)>>, invoke(<<7, k>>)),
        \* function h(a) { function a() {} return a; }  x = h(k);
        Program(<<declared(<<A>>,
                    <<Function("FunctionDeclaration", A, <<>>, <<>>),
                      Return(A)>>)>>,
                invoke(<<k>>)),
        \* function h(a) { var b; return a; }  x = h(k);
        Program(<<declared(<<A>>, <<var(N_b), Return(A)>>)>>, invoke(<<k>>))>>

\* uses of a declared function placed before its declaration statement
Early(k) ==
  LET A == Identifier(N_a)
      F == Identifier(N_f)
      G == Identifier(N_g)
      f == Function("FunctionDeclaration", F, <<A>>, <<Return(A)>>)
      typeof(e) == Unary("typeof", e)
  IN  <<\* r = typeof f;  function f(a) { return a; }
        Program(<<ExpressionStatement(Assign(R, typeof(F)))>>, f),
        \* x = f(k);  function f(a) { return a; }
        Program(<<ExpressionStatement(Assign(X, Call(F, <<Literal(Num(k))>>)))>>, f),
        \* function h() { r = typeof g; function g() {} return typeof g; }
        \* x = h();
        Program(<<Function("FunctionDeclaration", Identifier(N_h), <<>>,
                    <<ExpressionStatement(Assign(R, typeof(G))),
                      Function("FunctionDeclaration", G, <<>>, <<>>),
                      Return(typeof(G))>>)>>,
                ExpressionStatement(Assign(X, Call(Identifier(N_h), <<>>))))>>

Scenarios(k) ==
  [n \in 1..Len(Loops(k)) |-> Program(<<>>, Loops(k)[n])]
  \o <<Falls(k), Scenario1>> \o Hoists(k) \o Closures(k) \o SelfNamed
  \o MemberUpdates(k) \o Recursion(k) \o Entries(k) \o Receivers(k)
  \o <<RunsPastEnd>> \o Ambient(k) \o Shifts(k) \o Fors(k)
  \o Strings(k) \o Nests(k) \o Unsupported(k) \o Redeclares(k)
  \o Early(k)

Init ==
  /\ \/ \E n \in 1..Len(Expressions(0, 0)), k \in 0..MaxLit, m \in 0..MaxLit,
          nested \in BOOLEAN :
          source = Program(IF n > 20 THEN DeclareF ELSE <<>>,
                           IF nested THEN Observe(Expressions(k, m)[n])
                           ELSE ExpressionStatement(Expressions(k, m)[n]))
     \/ \E n \in 1..Len(Statements(0, 0)), k \in 0..MaxLit, m \in 0..MaxPos,
          named \in BOOLEAN :
          source = Program(IF named THEN DeclareSwitchCase3 ELSE <<>>,
                           Statements(k, m)[n])
     \/ \E k \in 0..MaxLit : \E n \in 1..Len(Scenarios(k)) :
          source = Scenarios(k)[n]
  /\ phase = "source"
  /\ compiler = clear
  /\ codes = <<>>
  /\ frames = <<>>
  /\ scopes = <<>>
  /\ global = <<>>
  /\ heap = <<>>
  /\ closures = <<>>
  /\ result = Undefined
  /\ steps = 0

Next ==
  \/ Compile \/ Assemble \/ Start
  \/ StepNop \/ StepPush \/ StepAlloc \/ StepNum \/ StepAddr \/ StepStr
  \/ StepPop \/ StepTop \/ StepTop2
  \/ StepVar \/ StepLoad \/ StepOut
  \/ StepJump \/ StepJumpIf \/ StepJumpNot
  \/ StepFunc \/ StepCall \/ StepNew \/ StepRet
  \/ StepGet \/ StepSet \/ StepIn \/ StepDelete
  \/ StepBinary \/ StepUnary \/ StepDefault

Spec == Init /\ [][Next]_vars

(***************************************************************************)
(* Where the statement under study lies in the byte code.  The root block  *)
(* is compiled first and its RET is the first one emitted; the lowering of *)
(* a statement or expression has the same size wherever it is emitted.     *)
(***************************************************************************)
Subject == source.body[Len(source.body)]

\* the subject is `r = 7 + e;`
Nested ==
  /\ Subject.type = "ExpressionStatement"
  /\ Subject.expression.type = "AssignmentExpression"
  /\ Subject.expression.operator = "="
  /\ Subject.expression.left = R
  /\ Subject.expression.right.type = "BinaryExpression"
  /\ Subject.expression.right.left = Literal(Num(7))

\* the expression under study, if the subject holds one
Studied ==
  IF Nested THEN Subject.expression.right.right
  ELSE IF Subject.type = "ExpressionStatement" THEN Subject.expression
  ELSE Absent

\* the statement as the lowerer meets it: the functions in the last
\* statement of the program carry the labels the pre-pass gave them
Lowered(statement) ==
  IF statement = Subject
  THEN LET body == parse(source, clear).blocks[1].body
       IN  body[Len(body)]
  ELSE statement

StatementSize(statement) ==
  LET ins == compileStatement(clear, Lowered(statement)).instructions
  IN  SizeOfRange(ins, 1, Len(ins))

ExpressionSize(e) ==
  LET ins == compileExpression(clear, e).instructions
  IN  SizeOfRange(ins, 1, Len(ins))

IsOp(ins, code) == ins.type = "opcode" /\ ins.opcode = code

\* just after the subject: the address of the root block's RET
SubjectEnd ==
  LET ins == compiler.instructions
  IN  OffsetOf(ins, CHOOSE i \in 1..Len(ins) :
                      /\ IsOp(ins[i], RET)
                      /\ \A j \in 1..(i - 1) : ~IsOp(ins[j], RET))

SubjectStart == SubjectEnd - StatementSize(Subject)

\* just after the expression under study: `ADD; STR r; OUT; POP` or `POP`
\* follow it
StudiedEnd == SubjectEnd - (IF Nested THEN 8 ELSE 1)

StudiedStart == StudiedEnd - ExpressionSize(Studied)

\* the root frame is about to dispatch the byte at an address of [lo, hi)
RootWithin(lo, hi) ==
  /\ Running /\ Len(frames) = 1
  /\ lo <= Frame.pieceOfCode /\ Frame.pieceOfCode < hi

\* the root frame has just reached address pc
RootAt(pc) == phase = "running" /\ Len(frames) = 1 /\ Frame.pieceOfCode = pc

(***************************************************************************)
(* C1  Short-circuit: in the code of `a && b`, when a is falsy no          *)
(* instruction of the lowering of b is executed; in the code of `a || b`,  *)
(* when a is truthy no instruction of the lowering of b is executed.       *)
(* In the lowering `a; TOP; ADDR end; JUMPx; b; AND/OR; end:` the code of  *)
(* b is the bytes just before the final AND / OR.                          *)
(***************************************************************************)
C1_ShortCircuit ==
  (Studied.type = "LogicalExpression" /\ phase = "running") =>
    LET a == Studied.left.value
        skipped == IF Studied.operator = "&&" THEN ~ToBoolean(a)
                   ELSE ToBoolean(a)
    IN  skipped =>
          ~RootWithin(StudiedEnd - 1 - ExpressionSize(Studied.right),
                      StudiedEnd - 1)

(***************************************************************************)
(* C2  The single value `a && b` leaves on the operand stack is the value  *)
(* of a when a is falsy and the value of b when a is truthy; for `a || b`  *)
(* it is the value of a when a is truthy and the value of b otherwise; the *)
(* value is not coerced to boolean.  Here a is a literal and b is `x = m`, *)
(* whose value is m.                                                       *)
(***************************************************************************)
C2_LogicalValue ==
  (Studied.type = "LogicalExpression" /\ RootAt(StudiedEnd)) =>
    LET a == Studied.left.value
        b == Studied.right.right.value
        below == IF Nested THEN 1 ELSE 0
    IN  /\ Len(Frame.stack) = below + 1
        /\ Last(Frame.stack) =
             IF Studied.operator = "&&"
             THEN (IF ToBoolean(a) THEN b ELSE a)
             ELSE (IF ToBoolean(a) THEN a ELSE b)

(***************************************************************************)
(* C3  Statement stack balance: executing the instructions compileStatement*)
(* emits for a statement, on a path without RET, leaves the operand stack  *)
(* at the depth it had before the statement.  Stated for the declarations, *)
(* loops and switches under study: the root frame's stack is empty when    *)
(* the statement starts (the prelude is three declarations with one        *)
(* initialiser each), so it is empty again when control reaches the        *)
(* address after the statement.                                            *)
(***************************************************************************)
C3_StatementBalance ==
  /\ RootAt(SubjectStart) => Len(Frame.stack) = 0
  /\ (Subject.type # "ExpressionStatement" /\ RootAt(SubjectEnd)) =>
       Len(Frame.stack) = 0

(***************************************************************************)
(* C4  Expression stack balance: executing the instructions                *)
(* compileExpression emits for an expression leaves the operand stack      *)
(* exactly one value deeper than before, the expression's value on top and *)
(* every value below unchanged.  Before the expression under study the     *)
(* root frame's stack is empty, or holds the 7 of `r = 7 + e`.  The value  *)
(* on top is stated for the forms whose value is the literal they end in.  *)
(***************************************************************************)
C4_ExpressionBalance ==
  (Studied.type # "Absent" /\ RootAt(StudiedEnd)) =>
    /\ Len(Frame.stack) = (IF Nested THEN 2 ELSE 1)
    /\ Nested => Frame.stack[1] = Num(7)
    /\ Studied.type = "Literal" => Last(Frame.stack) = Studied.value
    /\ Studied.type = "SequenceExpression" =>
         Last(Frame.stack) = Studied.expressions[Len(Studied.expressions)].value

(***************************************************************************)
(* C5  Label closure: after compile() of an accepted program, every        *)
(* `reference` instruction of the buffer names a label for which exactly   *)
(* one `label` instruction of that name is in the buffer.                  *)
(***************************************************************************)
C5_LabelClosure ==
  (phase = "compiled") =>
    LET ins == compiler.instructions
    IN  \A i \in 1..Len(ins) :
          ins[i].type = "reference" =>
            Cardinality({j \in 1..Len(ins) :
                           ins[j].type = "label" /\ ins[j].name = ins[i].label}) = 1

(***************************************************************************)
(* C6  `while (test) body`: after each completion of the body control      *)
(* returns to the start label and the test is evaluated again; the loop is *)
(* left only when the test evaluates falsy (or through break / return), so *)
(* the body runs once for every truthy test.  For `while (x < n) ++x` with *)
(* no break in the body: when control reaches the address after the loop,  *)
(* the test `x < n` is false.                                              *)
(***************************************************************************)
C6_WhileLoopsBack ==
  (/\ Subject.type = "WhileStatement"
   /\ ~(/\ Subject.body.type = "BlockStatement"
        /\ \E i \in 1..Len(Subject.body.body) :
             Subject.body.body[i].type = "BreakStatement")
   /\ RootAt(SubjectEnd)) =>
    ~ToBoolean(Less(scopes[1].content[Str(N_x)], Subject.test.right.value))

(***************************************************************************)
(* C7  `test ? c : a`: the conditional jump consumes the test value        *)
(* together with the address of the alt label, exactly one branch is       *)
(* executed (c when the test is truthy, a when it is falsy), and that      *)
(* branch's value is the value of the expression.  The lowering ends with  *)
(* `c; ADDR end; JUMP; alt: a; end:`, which places both branches.          *)
(***************************************************************************)
C7_Conditional ==
  (Studied.type = "ConditionalExpression") =>
    LET truthy == ToBoolean(Studied.test.value)
        alt == StudiedEnd - ExpressionSize(Studied.alternate)
        cons == alt - 6 - ExpressionSize(Studied.consequent)
    IN  /\ (RootWithin(StudiedStart, StudiedEnd) /\ Code = JUMPNOT) =>
             /\ FromTop(Frame.stack, 1) = Num(alt)
             /\ FromTop(Frame.stack, 2) = Studied.test.value
        /\ truthy => ~RootWithin(alt, StudiedEnd)
        /\ ~truthy => ~RootWithin(cons, alt - 6)
        /\ RootAt(StudiedEnd) =>
             /\ Len(Frame.stack) = (IF Nested THEN 2 ELSE 1)
             /\ Last(Frame.stack) = (IF truthy THEN Studied.consequent.value
                                     ELSE Studied.alternate.value)

(***************************************************************************)
(* C8  Compound assignment `x op= e` to an identifier x bound in the scope *)
(* chain: the lowering is right, left, op, `STR x`, `OUT`; after execution *)
(* the binding of x holds the operator's result computed with the          *)
(* right-hand value below the old value of x (`e op x`), that stored value *)
(* is the expression's value, and no other binding changes.  Here x is 5   *)
(* before, e is a literal, and the other bindings are o, r and the ambient *)
(* object.                                                                 *)
(***************************************************************************)
C8_CompoundAssignment ==
  (/\ Studied.type = "AssignmentExpression"
   /\ Studied.left.type = "Identifier"
   /\ Studied.operator # "=") =>
    LET op == AssignmentOpCode(Studied.operator)
        stored == BinaryResult(op, Studied.right.value, Num(5))
    IN  /\ phase = "compiled" =>
             compileExpression(clear, Studied).instructions =
               writeOp(writeString(
                 writeOp(compileExpression(compileExpression(clear, Studied.right),
                                           Studied.left), op),
                 Studied.left.name), OUT).instructions
        /\ RootAt(StudiedEnd) =>
             /\ scopes[1].content[Str(N_x)] = stored
             /\ Last(Frame.stack) = stored
             /\ scopes[1].content[Str(N_r)] = Num(0)
             /\ scopes[1].content[Str(N_o)] = Ref(1)
             /\ DOMAIN scopes[1].content = {Str(N_x), Str(N_o), Str(N_r)}
             /\ global = <<>>

(***************************************************************************)
(* C9  Postfix update `t++` / `t--` (t an identifier or a member           *)
(* expression): the target is updated to old+1 / old-1 and the value left  *)
(* on the stack is the pre-update number; for the prefix forms the value   *)
(* left on the stack is the updated number.  Here t is x or o.p, both 5    *)
(* before the update.                                                      *)
(***************************************************************************)
C9_UpdateValue ==
  (Studied.type = "UpdateExpression" /\ RootAt(StudiedEnd)) =>
    LET updated == Num(IF Studied.operator = "++" THEN 6 ELSE 4)
        target == IF Studied.argument.type = "Identifier"
                  THEN scopes[1].content[Str(N_x)]
                  ELSE heap[1].props[N_p]
    IN  /\ target = updated
        /\ Last(Frame.stack) = (IF Studied.prefix THEN updated ELSE Num(5))

(***************************************************************************)
(* C10  In a switch, control enters the body of the first case in source   *)
(* order whose test is strictly equal to the discriminant, or the default  *)
(* body when no case test matches, wherever the default clause stands;     *)
(* from there the following bodies run in source order until a `break` or  *)
(* the end of the switch, and no body before the entry point runs.  The    *)
(* body at position j adds 10^(j-1) to r, which is 0 before the switch, so *)
(* r tells which bodies ran.  Stated for the programs without function     *)
(* declarations and the switches that have a clause to enter.              *)
(***************************************************************************)
C10_SwitchDispatch ==
  (Subject.type = "SwitchStatement" /\ Len(source.body) = Len(Prelude) + 1) =>
    LET cases == Subject.cases
        tested == {j \in 1..Len(cases) : cases[j].test.type # "Absent"}
        matches == {j \in tested : StrictEquals(cases[j].test.value,
                                                Subject.discriminant.value)}
        defaults == (1..Len(cases)) \ tested
        entry == IF matches # {} THEN CHOOSE j \in matches : \A i \in matches : j <= i
                 ELSE IF defaults # {} THEN CHOOSE j \in defaults : TRUE
                 ELSE 0
        breaks == {j \in entry..Len(cases) :
                     \E i \in 1..Len(cases[j].consequent) :
                       cases[j].consequent[i].type = "BreakStatement"}
        stop == IF breaks # {} THEN CHOOSE j \in breaks : \A i \in breaks : j <= i
                ELSE Len(cases)
        ran(j) == entry <= j /\ j <= stop
    IN  (entry # 0 /\ RootAt(SubjectEnd)) =>
          scopes[1].content[Str(N_r)] =
            Num((IF ran(1) THEN 1 ELSE 0) + (IF ran(2) THEN 10 ELSE 0)
                + (IF ran(3) THEN 100 ELSE 0))

(***************************************************************************)
(* The instructions of the statement under study in the buffer: they end   *)
(* just before the root block's RET.                                       *)
(***************************************************************************)
RootRet ==
  CHOOSE i \in 1..Len(compiler.instructions) :
    /\ IsOp(compiler.instructions[i], RET)
    /\ \A j \in 1..(i - 1) : ~IsOp(compiler.instructions[j], RET)

SubjectLength == Len(compileStatement(clear, Lowered(Subject)).instructions)

\* the i-th instruction of the subject, and the i-th from its end
SubjectIns(i) == compiler.instructions[RootRet - SubjectLength - 1 + i]

SubjectInsFromEnd(i) == compiler.instructions[RootRet - i]

LastOf(list) == list[Len(list)]

(***************************************************************************)
(* C11  Every `break` lowers to a jump to the end label of its innermost   *)
(* enclosing loop or switch, and every `continue` to the continue label of *)
(* its innermost enclosing loop, also when the `break` or `continue`       *)
(* follows a completed switch statement in the same loop body.  Stated for *)
(* a loop `start: test; ADDR end; JUMPNOT; body; end:` whose body ends     *)
(* with the jump, and for a switch whose last clause ends with `break`     *)
(* (`...; ADDR l; JUMP; POP; end:`).                                       *)
(***************************************************************************)
C11_JumpTargets ==
  (phase = "compiled") =>
    /\ (/\ Subject.type = "WhileStatement"
        /\ Subject.body.type = "BlockStatement"
        /\ LastOf(Subject.body.body).type = "BreakStatement") =>
         /\ SubjectInsFromEnd(3).type = "reference"
         /\ SubjectInsFromEnd(3).label = SubjectInsFromEnd(1).name
    /\ (/\ Subject.type = "WhileStatement"
        /\ Subject.body.type = "BlockStatement"
        /\ LastOf(Subject.body.body).type = "ContinueStatement") =>
         /\ SubjectInsFromEnd(3).type = "reference"
         /\ SubjectInsFromEnd(3).label = SubjectIns(1).name
    /\ (/\ Subject.type = "SwitchStatement"
        /\ LastOf(LastOf(Subject.cases).consequent).type = "BreakStatement") =>
         /\ SubjectInsFromEnd(4).type = "reference"
         /\ SubjectInsFromEnd(4).label = SubjectInsFromEnd(1).name

(***************************************************************************)
(* C12  A script that executes no explicit `return` yields undefined from  *)
(* the root frame's RET, and a function invocation whose body completes    *)
(* without a `return` yields undefined, whatever statements ran before the *)
(* end of the block.  No script here has a `return` outside a function;    *)
(* the second part is stated for the programs whose functions have no      *)
(* `return` in their body.                                                 *)
(***************************************************************************)
HasReturn(statement) ==
  /\ statement.type = "FunctionDeclaration"
  /\ \E i \in 1..Len(statement.body.body) :
       statement.body.body[i].type = "ReturnStatement"

C12_ImplicitUndefined ==
  /\ phase = "done" => result = Undefined
  /\ (/\ \A i \in 1..Len(source.body) : ~HasReturn(source.body[i])
      /\ Running /\ Len(frames) > 1 /\ Code = RET) =>
       Last(Frame.stack) = Undefined

(***************************************************************************)
(* C13  Running `var x = 1; x + 2;` through compile and run from the       *)
(* script's root label returns 3 as the program's final value: the value   *)
(* of the script's last expression statement is what the root frame        *)
(* returns.                                                                *)
(***************************************************************************)
C13_ScriptValue ==
  (source = Scenario1 /\ phase = "done") => result = Num(3)

(***************************************************************************)
(* The blocks of the program, the address of the first body instruction of *)
(* a block (after its label, its parameters and its declarations), and the *)
(* names `var` declares in a list of statements, nested statements         *)
(* included, nested functions excluded.                                    *)
(***************************************************************************)
Blocks == parse(source, clear).blocks

BlockSize(st) == SizeOfRange(st.instructions, 1, Len(st.instructions))

BodyStart(block) ==
  LabelAddress(compiler.instructions, block.label)
  + BlockSize(IF block.type = "Program"
              THEN declareAll(clear, block.declarations)
              ELSE declareAll(writeOp(compileParams(clear, block.params, 0), POP),
                              block.declarations))

BodyOf(block) == IF block.type = "Program" THEN block.body ELSE block.body.body

RECURSIVE VarNames(_)
VarNames(statements) ==
  IF statements = <<>> THEN {}
  ELSE LET s == Head(statements)
           own == CASE s.type = "VariableDeclaration" ->
                         {s.declarations[i].id.name : i \in 1..Len(s.declarations)}
                    [] s.type = "BlockStatement" -> VarNames(s.body)
                    [] s.type = "WhileStatement" -> VarNames(<<s.body>>)
                    [] s.type = "IfStatement" ->
                         VarNames(<<s.consequent>>)
                         \cup (IF s.alternate.type = "Absent" THEN {}
                               ELSE VarNames(<<s.alternate>>))
                    [] s.type = "SwitchStatement" ->
                         UNION {VarNames(s.cases[i].consequent) :
                                  i \in 1..Len(s.cases)}
                    [] OTHER -> {}
       IN  own \cup VarNames(Tail(statements))

\* the program has `r = typeof a;` before the declaration of a
ReadsEarly ==
  /\ \E k \in 0..MaxLit : \E n \in 1..Len(Hoists(k)) : source = Hoists(k)[n]
  /\ \E i \in 1..Len(Blocks) :
       BodyOf(Blocks[i])[IF i = 1 THEN Len(Prelude) + 1 ELSE 1] =
         ExpressionStatement(Assign(R, Unary("typeof", Identifier(N_a))))

(***************************************************************************)
(* C14  Hoisting: every name declared by `var` anywhere in a function or   *)
(* script body is declared in the frame's scope, with value undefined,     *)
(* before the first body instruction executes; so reading it before its    *)
(* declaring statement runs yields undefined (`typeof` yields              *)
(* "undefined") and never raises an unresolved-reference error.  A frame   *)
(* reaches the first body instruction of its block once when every jump of *)
(* the buffer takes the address of a label; a jump that takes another      *)
(* value as its address can enter a block again, past its declarations.    *)
(***************************************************************************)
JumpsToLabels ==
  \A i \in 1..Len(compiler.instructions) :
    (\/ IsOp(compiler.instructions[i], JUMP)
     \/ IsOp(compiler.instructions[i], JUMPIF)
     \/ IsOp(compiler.instructions[i], JUMPNOT)) =>
      (i > 1 /\ compiler.instructions[i - 1].type = "reference")

C14_Hoisting ==
  /\ \A i \in 1..Len(Blocks) :
       (Running /\ JumpsToLabels /\ Frame.pieceOfCode = BodyStart(Blocks[i])) =>
         \A name \in VarNames(BodyOf(Blocks[i])) :
           /\ Str(name) \in DOMAIN scopes[Frame.scope].content
           /\ scopes[Frame.scope].content[Str(name)] = Undefined
  /\ ReadsEarly =>
       /\ phase # "error"
       /\ phase = "done" => scopes[1].content[Str(N_r)] = Str(S_undefined)

\* a function frame is about to run its first body instruction with a
\* hoisted name in its scope that a nested statement declares
C14_Witness ==
  /\ ReadsEarly /\ Running /\ JumpsToLabels /\ Len(frames) = 2
  /\ Len(Blocks) = 2
  /\ Frame.pieceOfCode = BodyStart(Blocks[2])
  /\ VarNames(BodyOf(Blocks[2])) = {N_a}
  /\ Blocks[2].params # <<Identifier(N_a)>>
  /\ scopes[Frame.scope].content[Str(N_a)] = Undefined

(***************************************************************************)
(* C15  Closure capture: a closure made by FUNC captures the scope of the  *)
(* frame that made it by reference; after that frame has executed RET the  *)
(* closure still loads and assigns the frame's variables, two closures     *)
(* made from the same scope observe each other's assignments, and closures *)
(* made in different invocations of the enclosing function have distinct   *)
(* bindings.  In the programs here f(a) sets its local c to a, stores a    *)
(* closure that increments c in o.p and returns a closure that reads c.    *)
(***************************************************************************)
UsesClosures(n) == \E k \in 0..MaxLit : source = Closures(k)[n]

C15_ClosureCapture ==
  (UsesClosures(1) \/ UsesClosures(2)) =>
    LET k == source.body[Len(Prelude) + 2].expression.right.arguments[1].value
        at(i) == scopes[closures[i].scope].content
    IN  /\ phase # "error"
        /\ \A i \in 2..Len(closures) :
             /\ closures[i].scope # 1
             /\ scopes[closures[i].scope].parent = 1
             /\ Str(N_c) \in DOMAIN at(i)
        /\ Len(closures) >= 3 => closures[2].scope = closures[3].scope
        /\ Len(closures) >= 5 =>
             /\ closures[4].scope = closures[5].scope
             /\ closures[4].scope # closures[2].scope
        \* x = f(k); o.p(); r = x();
        /\ (UsesClosures(1) /\ phase = "done") =>
             /\ scopes[1].content[Str(N_r)] = Plus(k, Num(1))
             /\ at(2)[Str(N_c)] = Plus(k, Num(1))
        \* x = f(k); r = f(7); o.p(); x = x() * 10 + r();
        /\ (UsesClosures(2) /\ phase = "done") =>
             /\ at(2)[Str(N_c)] = k
             /\ at(4)[Str(N_c)] = Num(8)
             /\ scopes[1].content[Str(N_x)] = Num(k.v[1] * 10 + 8)

\* the second program has ended: both invocations of f have returned and
\* their closures have run
C15_Witness ==
  /\ UsesClosures(2) /\ phase = "done"
  /\ Len(closures) = 5 /\ Len(frames) = 1
  /\ scopes[closures[4].scope].content[Str(N_c)] = Num(8)

(***************************************************************************)
(* C16  Named function expression: inside the body of `function g() {...}` *)
(* used as an expression, the name g resolves to the closure being         *)
(* invoked; the name is declared only in the scope of the invocation, so a *)
(* load of g from the scope in which the expression was evaluated, or an   *)
(* outer scope, does not find it.  Here the expression is evaluated in the *)
(* root scope and kept in x; the second program ends with `r = g;`.        *)
(***************************************************************************)
UsesSelfNamed(n) == source = SelfNamed[n]

C16_SelfName ==
  ((UsesSelfNamed(1) \/ UsesSelfNamed(2)) /\ scopes # <<>>) =>
    /\ Str(N_g) \notin DOMAIN scopes[1].content
    /\ N_g \notin DOMAIN global
    /\ (Running /\ Len(frames) = 2) =>
         /\ Str(N_g) \in DOMAIN scopes[Frame.scope].content
         /\ scopes[Frame.scope].content[Str(N_g)] = scopes[1].content[Str(N_x)]
         /\ Code = RET => Last(Frame.stack) = scopes[1].content[Str(N_x)]
    /\ UsesSelfNamed(1) =>
         /\ phase # "error"
         /\ phase = "done" => scopes[1].content[Str(N_r)] = Fun(1)
    /\ UsesSelfNamed(2) =>
         /\ phase # "done"
         /\ phase = "error" => /\ Len(scopes) = 2
                               /\ scopes[1].content[Str(N_r)] = Num(0)

\* the invocation of the function is about to return the value of g
C16_Witness ==
  /\ UsesSelfNamed(1) /\ Running /\ Len(frames) = 2 /\ Code = RET
  /\ Last(Frame.stack) = Fun(1)

\* the load of g in the root scope, after the invocation, raised
C16_WitnessOutside ==
  UsesSelfNamed(2) /\ phase = "error" /\ Len(scopes) = 2

(***************************************************************************)
(* C17  Compound assignment to a member, `o[k] op= v` or `o.k op= v`: the  *)
(* property is set to (old property value) op (value of v) with the old    *)
(* value as the left operand, the stored value is the expression's value,  *)
(* and the object and key sub-expressions are each evaluated exactly once. *)
(* Here the property holds 5 before, v is a literal, op is one of += -=    *)
(* <<= &=, and an object or key sub-expression with a side effect adds 1   *)
(* to r, which is 0 before.                                                *)
(***************************************************************************)
\* a * 2^b, and the AND of a (below 8) and b (below 8), bit by bit
ShiftedLeft(a, b) == IF b = 0 THEN a ELSE IF b = 1 THEN 2 * a
                     ELSE IF b = 2 THEN 4 * a ELSE 8 * a

AndOfBits(a, b) ==
  (IF a % 2 = 1 /\ b % 2 = 1 THEN 1 ELSE 0)
  + (IF (a \div 2) % 2 = 1 /\ (b \div 2) % 2 = 1 THEN 2 ELSE 0)
  + (IF (a \div 4) % 2 = 1 /\ (b \div 4) % 2 = 1 THEN 4 ELSE 0)

MemberCompound ==
  /\ Studied.type = "AssignmentExpression"
  /\ Studied.left.type = "MemberExpression"
  /\ Studied.operator # "="

C17_MemberCompound ==
  MemberCompound =>
    LET v == Studied.right.value.v[1]
        stored == Num(CASE Studied.operator = "+=" -> 5 + v
                        [] Studied.operator = "-=" -> 5 - v
                        [] Studied.operator = "<<=" -> ShiftedLeft(5, v)
                        [] Studied.operator = "&=" -> AndOfBits(5, v))
        key == IF Studied.left.computed THEN Dec(1) ELSE N_p
        effects == IF Studied.left.computed
                      \/ Studied.left.object.type = "CallExpression"
                   THEN 1 ELSE 0
    IN  /\ phase \notin {"error", "unmodelled"}
        /\ RootAt(StudiedEnd) =>
             /\ key \in DOMAIN heap[1].props
             /\ heap[1].props[key] = stored
             /\ Len(Frame.stack) = (IF Nested THEN 2 ELSE 1)
             /\ Last(Frame.stack) = stored
             /\ Nested \/ scopes[1].content[Str(N_r)] = Num(effects)

\* `f().p -= k` has just left its value on the stack: the call ran once
C17_Witness ==
  /\ MemberCompound /\ RootAt(StudiedEnd)
  /\ Studied.left.object.type = "CallExpression"
  /\ scopes[1].content[Str(N_r)] = Num(1)
  /\ Last(Frame.stack) = heap[1].props[N_p]
  /\ Last(Frame.stack) # Num(5)

(***************************************************************************)
(* C18  Frame isolation: while a closure invoked by CALL runs, the callee  *)
(* frame never reads or writes the caller's operand stack; when the callee *)
(* returns, the caller's stack is its content before the CALL with the     *)
(* three operands (receiver, function, argument array) replaced by the     *)
(* single result, and the caller's program counter is the instruction      *)
(* after CALL.  As a property of every step: a CALL leaves the caller with *)
(* the three operands removed and the address after CALL, and starts the   *)
(* callee on a stack that holds its argument array only; a step of the     *)
(* callee leaves every frame below it as it is; a RET of the callee        *)
(* appends the returned value to the caller's stack and changes nothing    *)
(* else of the frames below.                                               *)
(***************************************************************************)
Below(fs, n) == SubSeq(fs, 1, n - 1)

IsolatedStep ==
  LET n == Len(frames)
      m == Len(frames')
  IN  /\ (n >= 1 /\ m = n + 1) =>
           /\ Code = CALL
           /\ Below(frames', n) = Below(frames, n)
           /\ frames'[n].scope = Frame.scope
           /\ frames'[n].pieceOfCode = Frame.pieceOfCode + 1
           /\ Len(Frame.stack) >= 3 =>
                frames'[n].stack = SubSeq(Frame.stack, 1, Len(Frame.stack) - 3)
           /\ Len(frames'[m].stack) = 1
           /\ frames'[m].stack[1].t = "object"
      /\ (m = n /\ n >= 2) => Below(frames', n) = Below(frames, n)
      /\ (n >= 2 /\ m = n - 1) =>
           /\ Code = RET
           /\ Below(frames', m) = Below(frames, m)
           /\ frames'[m].scope = frames[m].scope
           /\ frames'[m].pieceOfCode = frames[m].pieceOfCode
           /\ frames'[m].stack = Append(frames[m].stack, Last(Frame.stack))
      /\ m \in {n - 1, n, n + 1}

C18_FrameIsolation == [][IsolatedStep]_vars

\* `r = 7 + f(k)`: f has returned into a caller whose stack held the 7
\* below the three operands of the CALL
C18_Witness ==
  /\ Nested /\ Studied.type = "CallExpression" /\ RootAt(StudiedEnd)
  /\ Frame.stack = <<Num(7), Plus(Studied.arguments[1].value, Num(1))>>
  /\ Len(scopes) = 2

(***************************************************************************)
(* C19  Each invocation of a closure gets its own scope, so parameter and  *)
(* local bindings of an outer invocation are unchanged by nested           *)
(* (recursive) invocations of the same closure; consequently the recursive *)
(* `fact` of scenario 3 returns n! for every n in a bounded range (120 for *)
(* n = 5).  For a program that calls fact(n): run() raises no error; while *)
(* nested invocations run, the i-th invocation from the outside has its    *)
(* own scope, in which n is still n - (i - 1), so no more than max(n, 1)   *)
(* invocations are ever nested; and once the outermost invocation has      *)
(* returned into `r = fact(n)`, r is n!.                                   *)
(***************************************************************************)
RECURSIVE Factorial(_)
Factorial(n) == IF n < 2 THEN 1 ELSE n * Factorial(n - 1)

CallsFact ==
  \E k \in 0..MaxLit : \E n \in 1..Len(Recursion(k)) : source = Recursion(k)[n]

\* the n of `fact(n)` in the last statement of the program
FactArgument ==
  LET e == Subject.expression
  IN  IF e.type = "CallExpression" THEN e.arguments[1].value.v[1]
      ELSE e.right.arguments[1].value.v[1]

OwnBindings ==
  \A i \in 2..Len(frames) :
    /\ \A j \in 1..Len(frames) : i # j => frames[i].scope # frames[j].scope
    /\ i < Len(frames) =>
         LET content == scopes[frames[i].scope].content
         IN  /\ Str(N_n) \in DOMAIN content
             /\ content[Str(N_n)] = Num(FactArgument - (i - 2))

C19_Recursion ==
  CallsFact =>
    /\ phase \notin {"error", "unmodelled"}
    /\ OwnBindings
    /\ Len(frames) <= 1 + (IF FactArgument < 2 THEN 1 ELSE FactArgument)
    /\ (Subject.expression.type = "AssignmentExpression" /\ RootAt(SubjectEnd))
         => scopes[1].content[Str(N_r)] = Num(Factorial(FactArgument))

(***************************************************************************)
(* C20  When a closure is invoked with receiver r and arguments            *)
(* a_0..a_(k-1), its body starts executing in a fresh scope whose parent   *)
(* is the scope captured at FUNC time, with `this` bound to r, each        *)
(* declared parameter i bound to a_i (undefined when i >= k), and an empty *)
(* operand stack (the argument array has been popped by the prologue).     *)
(* Stated for the invocation made by a last statement `x = callee(a...)`   *)
(* with literal arguments, at the moment the callee is about to dispatch   *)
(* the first instruction of the lowering of its body.                      *)
(***************************************************************************)
EntersCallee == \E k \in 0..MaxLit : \E n \in 1..Len(Entries(k)) : source = Entries(k)[n]

Invocation == Subject.expression.right

\* the receiver and the function the CALL of the subject finds on the stack
Receiver ==
  IF Invocation.callee.type = "MemberExpression"
  THEN scopes[1].content[Str(Invocation.callee.object.name)]
  ELSE Null

Callee ==
  IF Invocation.callee.type = "MemberExpression"
  THEN heap[Receiver.v[1]].props[Invocation.callee.property.name]
  ELSE scopes[1].content[Str(Invocation.callee.name)]

CalleeBlock ==
  CHOOSE block \in {Blocks[i] : i \in 1..Len(Blocks)} :
    Num(LabelAddress(compiler.instructions, block.label))
      = closures[Callee.v[1]].addr

\* the invocation of the subject is about to run the first instruction of
\* the body of the callee
AtBody ==
  /\ phase = "running" /\ Len(frames) = 2
  /\ frames[1].pieceOfCode > SubjectStart
  /\ Frame.pieceOfCode = BodyStart(CalleeBlock)

C20_CalleeEntry ==
  (EntersCallee /\ AtBody) =>
    LET own == scopes[Frame.scope]
        params == CalleeBlock.params
        a == Invocation.arguments
    IN  /\ Frame.stack = <<>>
        /\ Frame.scope = Len(scopes)
        /\ Frame.scope # frames[1].scope
        /\ own.parent = closures[Callee.v[1]].scope
        /\ Str(S_this) \in DOMAIN own.content
        /\ own.content[Str(S_this)] = Receiver
        /\ \A i \in 1..Len(params) :
             /\ Str(params[i].name) \in DOMAIN own.content
             /\ own.content[Str(params[i].name)]
                  = (IF i <= Len(a) THEN a[i].value ELSE Undefined)

(***************************************************************************)
(* C21  For a member call `o.m(args)` the object expression is evaluated   *)
(* exactly once and the callee is invoked with that object as receiver;    *)
(* for a call whose callee is not a member expression the receiver passed  *)
(* is null; in both cases CALL pops exactly the argument array, the        *)
(* function and the receiver, in that order.  On every step that enters a  *)
(* callee: the three topmost values of the caller are an array, a function *)
(* and the receiver, the callee's `this` is that receiver, its closure is  *)
(* that function, its arguments are the elements of that array, and the    *)
(* caller keeps what lay below.  For the programs whose last statement is  *)
(* `x = f().p(k)`, `x = o[r = r + 2](k)` or `x = h(k)`, with callee        *)
(* `{ o[1] = a; return this; }`: after the statement x is the object o     *)
(* (null for `h(k)`), o[1] is k, and r counts one evaluation of the object *)
(* expression or key.                                                      *)
(***************************************************************************)
CallsWithReceiver ==
  \E k \in 0..MaxLit : \E n \in 1..Len(Receivers(k)) : source = Receivers(k)[n]

CallPops ==
  (Code = CALL /\ Len(frames') = Len(frames) + 1) =>
    LET st == Frame.stack
        n == Len(st)
        entered == scopes'[frames'[Len(frames')].scope]
    IN  /\ n >= 3
        /\ st[n].t = "object" /\ heap[st[n].v[1]].kind = "array"
        /\ st[n - 1].t = "function"
        /\ entered.content[Str(S_this)] = st[n - 2]
        /\ entered.parent = closures[st[n - 1].v[1]].scope
        /\ frames'[Len(frames')].pieceOfCode = closures[st[n - 1].v[1]].addr.v[1]
        /\ heap'[Len(heap')].props = heap[st[n].v[1]].props
        /\ frames'[Len(frames)].stack = SubSeq(st, 1, n - 3)

ReceiverOutcome ==
  (CallsWithReceiver /\ RootAt(SubjectEnd)) =>
    LET callee == Subject.expression.right.callee
        member == callee.type = "MemberExpression"
        once == IF ~member THEN 0 ELSE IF callee.computed THEN 2 ELSE 1
    IN  /\ scopes[1].content[Str(N_x)] = (IF member THEN Ref(1) ELSE Null)
        /\ scopes[1].content[Str(N_r)] = Num(once)
        /\ heap[1].props[Dec(1)] = Subject.expression.right.arguments[1].value

C21_Receiver ==
  [][/\ phase = "running" => CallPops
     /\ CallsWithReceiver => phase \notin {"error", "unmodelled"}
     /\ ReceiverOutcome]_vars

\* `x = f().p(k)` has run: f was called once, p ran with o as `this`
C21_Witness ==
  /\ CallsWithReceiver /\ RootAt(SubjectEnd)
  /\ Subject.expression.right.callee.type = "MemberExpression"
  /\ ~Subject.expression.right.callee.computed
  /\ scopes[1].content[Str(N_x)] = Ref(1)
  /\ scopes[1].content[Str(N_r)] = Num(1)

\* `x = h(k)` has run with null as `this`
C21_WitnessPlain ==
  /\ CallsWithReceiver /\ RootAt(SubjectEnd)
  /\ Subject.expression.right.callee.type = "Identifier"
  /\ scopes[1].content[Str(N_x)] = Null

(***************************************************************************)
(* C22  A frame's dispatch loop stops only by executing RET (returning the *)
(* popped top of stack to the caller) or by raising a fatal error on a     *)
(* byte that is not an opcode, including when the program counter runs     *)
(* past the end of the code buffer; no other opcode ends the loop, and the *)
(* error propagates through every enclosing frame to the embedder.  On     *)
(* every step of run(): a frame ends only on RET, and its caller (or the   *)
(* embedder, for the root frame) receives the popped top of stack; run()   *)
(* ends with an error only when the dispatched byte is no opcode; a byte   *)
(* that is no opcode, or no byte at all, ends run() with an error whatever *)
(* the number of frames; after an error no frame takes another step.       *)
(***************************************************************************)
EndsFrame == Len(frames') < Len(frames) \/ phase' = "done"

RetReturns ==
  EndsFrame =>
    /\ Code = RET
    /\ IF Len(frames) = 1
       THEN phase' = "done" /\ result' = Last(Frame.stack)
       ELSE /\ Len(frames') = Len(frames) - 1
            /\ Last(frames'[Len(frames')].stack) = Last(Frame.stack)

Raising == {LOAD, OUT, CALL, NEW_, GET, SET, IN_, DELETE, INSOF}

C22_WitnessPastEnd ==
  /\ phase = "error" /\ source = RunsPastEnd
  /\ Frame.pieceOfCode >= Len(codes) /\ Code = NoCode

(***************************************************************************)
(* C23  OUT pops the name, then the value, assigns the value in the scope  *)
(* chain and pushes the assigned value back, in every case: when the name  *)
(* is bound in some scope and also when the global scope falls back to     *)
(* assigning the ambient environment on a miss.  On every OUT that does    *)
(* not raise: the frame's stack afterwards is the stack below the two      *)
(* operands with the assigned value on top, and the value is stored in the *)
(* nearest scope that declares the name, or in the ambient environment     *)
(* when none does.                                                         *)
(***************************************************************************)
OutAssigns ==
  LET name == FromTop(Frame.stack, 1)
      value == FromTop(Frame.stack, 2)
      d == DeclaringScope(scopes, Frame.scope, name)
  IN  /\ Len(Frame.stack) >= 2
      /\ IF d # 0
         THEN scopes'[d].content[name] = value /\ global' = global
         ELSE /\ name.v \in DOMAIN global' /\ global'[name.v] = value
              /\ scopes' = scopes
      /\ frames'[Len(frames)].stack
           = Append(SubSeq(Frame.stack, 1, Len(Frame.stack) - 2), value)
      /\ frames'[Len(frames)].pieceOfCode = Fetched

C23_OutPushes ==
  [][(phase = "running" /\ Code = OUT /\ phase' = "running") => OutAssigns]_vars

(***************************************************************************)
(* C24  DELETE is a terminal case: it pops exactly the key and the object, *)
(* pushes one boolean (the result of the deletion), and executes no other  *)
(* opcode's effect; every value below the two operands is unchanged.  On   *)
(* every DELETE that does not raise: the frame's stack afterwards is the   *)
(* stack below the two operands with one boolean on top, the property is   *)
(* gone from the object, and the frame goes on at the next byte.           *)
(***************************************************************************)
DeletePops ==
  LET st == Frame.stack
      n == Len(st)
      after == frames'[Len(frames)].stack
  IN  /\ n >= 2
      /\ Len(after) = n - 1
      /\ SubSeq(after, 1, n - 2) = SubSeq(st, 1, n - 2)
      /\ after[n - 1].t = "boolean"
      \* a property of an object made by the program can be deleted
      /\ st[n - 1].t = "object" =>
           /\ after[n - 1] = Bool(TRUE)
           /\ st[n].v \notin DOMAIN heap'[st[n - 1].v[1]].props
      /\ frames'[Len(frames)].pieceOfCode = Fetched

C24_DeleteTerminal ==
  [][(phase = "running" /\ Code = DELETE /\ phase' = "running") => DeletePops]_vars

(***************************************************************************)
(* C25  Every mnemonic of the opcode table has its own byte value (LSHIFT  *)
(* is 0x74, distinct from BAND 0x73), so the VM's dispatch on the byte the *)
(* compiler emits for `a << b` (and `<<=`) computes the left shift of a by *)
(* b and the byte emitted for `a & b` computes the bitwise AND.  For       *)
(* `r = 3 << k`, `r = 3 & k`, `o.p <<= k` and `o.p &= k` (o.p is 5), after *)
(* the statement: r is 3 * 2^k, r is the AND of 3 and k, o.p is 5 * 2^k,   *)
(* o.p is the AND of 5 and k; and the bytes of LSHIFT and BAND differ.     *)
(***************************************************************************)
UsesShifts ==
  \E k \in 0..MaxLit : \E n \in 1..Len(Shifts(k)) : source = Shifts(k)[n]

C25_ShiftAndMask ==
  (UsesShifts /\ RootAt(SubjectEnd)) =>
    LET e == Subject.expression
        compound == e.left.type = "MemberExpression"
        operator == IF compound THEN e.operator ELSE e.right.operator
        k == IF compound THEN e.right.value.v[1] ELSE e.right.right.value.v[1]
        a == IF compound THEN 5 ELSE 3
        expected == Num(IF operator \in {"<<", "<<="} THEN ShiftedLeft(a, k)
                        ELSE AndOfBits(a, k))
    IN  /\ LSHIFT # BAND
        /\ IF compound THEN heap[1].props[N_p] = expected
           ELSE scopes[1].content[Str(N_r)] = expected

(***************************************************************************)
(* The Scope classes on their own: on scopes built by the constructors,    *)
(* var and out, one of var, load and out is called on any scope with any   *)
(* name.  The call is kept in frames (the scope it was made on; the value  *)
(* and the name as OUT holds them on its stack), its kind in phase, what   *)
(* it returned in result.                                                  *)
(***************************************************************************)
MaxScopes == 3

ScopeNames == {Str(N_x), Str(N_y)}

\* the bindings a scope may hold
ScopeContents ==
  {IF S = {} THEN <<>> ELSE [name \in S |-> Num(0)] : S \in SUBSET ScopeNames}

\* new Scope(parent) with a scope made earlier or none, new GlobalScope(global)
ScopeObjects(id) ==
  {[parent |-> parent, global |-> isGlobal, content |-> content] :
     parent \in 0..(id - 1), isGlobal \in BOOLEAN, content \in ScopeContents}

ScopeForests ==
  UNION {{sc \in [1..n -> UNION {ScopeObjects(id) : id \in 1..n}] :
            \A id \in 1..n : /\ sc[id].parent < id
                             /\ sc[id].global => sc[id].parent = 0} :
         n \in 1..MaxScopes}

Called(kind, id, name, value, returned) ==
  /\ phase = "scopes"
  /\ phase' = kind
  /\ frames' = <<[scope |-> id, pieceOfCode |-> 0, stack |-> <<value, name>>]>>
  /\ result' = returned
  /\ UNCHANGED <<source, compiler, codes, heap, closures, steps>>

CallVar ==
  \E id \in 1..Len(scopes), name \in ScopeNames :
    /\ scopes' = ScopeVar(scopes, id, name)
    /\ Called("var", id, name, Undefined, Undefined)
    /\ UNCHANGED global

CallLoad ==
  \E id \in 1..Len(scopes), name \in ScopeNames :
    /\ Called("load", id, name, Undefined, ScopeLoad(scopes, global, id, name))
    /\ UNCHANGED <<scopes, global>>

CallOut ==
  \E id \in 1..Len(scopes), name \in ScopeNames :
    LET out == ScopeOut(scopes, global, id, name, Num(1))
    IN  /\ scopes' = out.scopes
        /\ global' = out.global
        /\ Called("out", id, name, Num(1), out.value)

ScopeInit ==
  /\ source = <<>>
  /\ phase = "scopes"
  /\ compiler = clear
  /\ codes = <<>>
  /\ frames = <<>>
  /\ scopes \in ScopeForests
  /\ global = N_y :> Num(0)
  /\ heap = <<>>
  /\ closures = <<>>
  /\ result = Undefined
  /\ steps = 0

ScopeNext == CallVar \/ CallLoad \/ CallOut

ScopeSpec == ScopeInit /\ [][ScopeNext]_vars

(***************************************************************************)
(* C26  In the array returned by toNumberArray, the 4 bytes at every       *)
(* reference position are the big-endian encoding of the byte offset at    *)
(* which the referenced label was defined (the offset of the first byte    *)
(* emitted after the label), for backward and forward references alike;    *)
(* label and comment instructions contribute no bytes, and executing ADDR  *)
(* on those 4 bytes pushes that offset and advances the program counter by *)
(* 4.  The offset of an instruction is counted as the number of bytes the  *)
(* instructions before it assemble to; a name defined twice stands for its *)
(* last definition; a reference to a name that is defined nowhere is left  *)
(* out.                                                                    *)
(***************************************************************************)
BytesBefore(i) == Len(toNumberArray(SubSeq(compiler.instructions, 1, i - 1)))

References ==
  {i \in 1..Len(compiler.instructions) : compiler.instructions[i].type = "reference"}

Definitions(name) ==
  {i \in 1..Len(compiler.instructions) :
     /\ compiler.instructions[i].type = "label"
     /\ compiler.instructions[i].name = name}

\* the offset the label of reference i stands for
Referenced(i) ==
  LET defs == Definitions(compiler.instructions[i].label)
  IN  BytesBefore(CHOOSE d \in defs : \A e \in defs : e <= d)

BigEndianAt(p) ==
  codes[p + 1] * 16777216 + codes[p + 2] * 65536 + codes[p + 3] * 256 + codes[p + 4]

Resolved ==
  /\ \A i \in References :
       Definitions(compiler.instructions[i].label) # {} =>
         BigEndianAt(BytesBefore(i)) = Referenced(i)
  /\ \A i \in 1..Len(compiler.instructions) :
       compiler.instructions[i].type = "label" => BytesBefore(i + 1) = BytesBefore(i)
  /\ Len(codes) = BytesBefore(Len(compiler.instructions) + 1)

\* the frame dispatches the ADDR that writeReference put before reference i
AtReference(i) ==
  /\ Code = ADDR
  /\ Frame.pieceOfCode + 1 = BytesBefore(i)
  /\ IsOp(compiler.instructions[i - 1], ADDR)
  /\ Definitions(compiler.instructions[i].label) # {}

AddrPushes ==
  \A i \in References :
    AtReference(i) =>
      /\ frames'[Len(frames)].stack = Append(Frame.stack, Num(Referenced(i)))
      /\ frames'[Len(frames)].pieceOfCode = Fetched + 4

C26_References ==
  [][/\ phase = "assembled" => Resolved
     /\ phase = "running" => AddrPushes]_vars

\* a program is assembled in which one reference points back and another
\* points ahead
C26_Witness ==
  /\ phase = "assembled"
  /\ \E i \in References : Definitions(compiler.instructions[i].label) # {}
                            /\ Referenced(i) < BytesBefore(i)
                            /\ Referenced(i) > 0
  /\ \E i \in References : Definitions(compiler.instructions[i].label) # {}
                            /\ Referenced(i) > BytesBefore(i)

(***************************************************************************)
(* C27  Scope.load returns the value held by the nearest scope, walking    *)
(* parent links from the current scope, that declares the name; Scope.out  *)
(* overwrites the binding in that nearest declaring scope only, leaving    *)
(* shadowed bindings in outer scopes and all other names unchanged; when   *)
(* no scope of a chain of ordinary scopes declares the name, both raise an *)
(* error and leave every scope unchanged.  Stated on the calls of          *)
(* ScopeSpec: frames' holds the call, scopes the scopes it was made on.    *)
(***************************************************************************)
RECURSIVE ChainOf(_, _)
ChainOf(sc, id) ==
  IF sc[id].parent = 0 THEN <<id>> ELSE <<id>> \o ChainOf(sc, sc[id].parent)

\* the first scope of the chain that declares the name, 0 when none does
Nearest(sc, id, name) ==
  LET chain == ChainOf(sc, id)
      hits == {i \in 1..Len(chain) : name \in DOMAIN sc[chain[i]].content}
  IN  IF hits = {} THEN 0 ELSE chain[CHOOSE i \in hits : \A j \in hits : i <= j]

OrdinaryChain(sc, id) ==
  \A i \in 1..Len(ChainOf(sc, id)) : ~sc[ChainOf(sc, id)[i]].global

\* from sc to after, exactly the binding of name in scope d became value
OnlyBinding(sc, after, d, name, value) ==
  /\ Len(after) = Len(sc)
  /\ \A e \in 1..Len(sc) :
       /\ after[e].parent = sc[e].parent
       /\ after[e].global = sc[e].global
       /\ DOMAIN after[e].content = DOMAIN sc[e].content
       /\ \A other \in DOMAIN sc[e].content :
            after[e].content[other] =
              IF e = d /\ other = name THEN value ELSE sc[e].content[other]

ScopeCall ==
  LET id == frames'[1].scope
      name == frames'[1].stack[2]
      value == frames'[1].stack[1]
      d == Nearest(scopes, id, name)
  IN  /\ phase' = "load" /\ d # 0 =>
           result' = scopes[d].content[name] /\ scopes' = scopes
      /\ phase' = "out" /\ d # 0 =>
           OnlyBinding(scopes, scopes', d, name, value) /\ result' = value
      /\ phase' \in {"load", "out"} /\ d = 0 /\ OrdinaryChain(scopes, id) =>
           result' = Thrown /\ scopes' = scopes /\ global' = global

C27_ScopeChain == [][ScopeCall]_vars

\* out was called on a scope whose binding shadows one of its parent
C27_Witness ==
  /\ phase = "out"
  /\ LET id == frames[1].scope
         name == frames[1].stack[2]
     IN  /\ scopes[id].parent # 0
         /\ name \in DOMAIN scopes[id].content
         /\ name \in DOMAIN scopes[scopes[id].parent].content
         /\ scopes[id].content[name] = Num(1)
         /\ scopes[scopes[id].parent].content[name] = Num(0)

\* load and out were called for a name no scope of an ordinary chain declares
C27_WitnessRaises ==
  /\ phase \in {"load", "out"}
  /\ result = Thrown
  /\ Len(ChainOf(scopes, frames[1].scope)) >= 2
  /\ OrdinaryChain(scopes, frames[1].scope)

(***************************************************************************)
(* C28  When the root of the chain is the global scope and no scope        *)
(* declares the name, out raises no error, writes the value into the       *)
(* ambient environment and leaves every scope's own bindings unchanged,    *)
(* whether it is issued from the root frame or from a nested function      *)
(* scope; load of such a name returns the ambient environment's value when *)
(* it has one and raises an error otherwise.  Stated on the OUT and LOAD   *)
(* steps of run().                                                         *)
(***************************************************************************)
\* the running frame dispatches code with a name on its stack that no scope
\* of its chain declares
Undeclared(code) ==
  /\ phase = "running"
  /\ Code = code
  /\ Frame.stack # <<>>
  /\ Last(Frame.stack).t = "string"
  /\ Nearest(scopes, Frame.scope, Last(Frame.stack)) = 0
  /\ scopes[Last(ChainOf(scopes, Frame.scope))].global

AmbientOut ==
  Undeclared(OUT) /\ Len(Frame.stack) >= 2 =>
    LET key == Last(Frame.stack).v
        value == Last(Front(Frame.stack))
    IN  /\ phase' = "running"
        /\ scopes' = scopes
        /\ DOMAIN global' = DOMAIN global \cup {key}
        /\ \A other \in DOMAIN global' :
             global'[other] = IF other = key THEN value ELSE global[other]

AmbientLoad ==
  Undeclared(LOAD) =>
    LET key == Last(Frame.stack).v
    IN  /\ scopes' = scopes
        /\ global' = global
        /\ IF key \in DOMAIN global
           THEN /\ phase' = "running"
                /\ frames'[Len(frames)].stack =
                     Append(Front(Frame.stack), global[key])
           ELSE phase' = "error"

C28_Ambient == [][AmbientOut /\ AmbientLoad]_vars

\* a function body assigned y, which no scope declares
C28_Witness ==
  /\ phase = "running"
  /\ Len(frames) >= 2
  /\ N_y \in DOMAIN global
  /\ Nearest(scopes, Frame.scope, Str(N_y)) = 0
  /\ Len(ChainOf(scopes, Frame.scope)) >= 2

\* the root frame assigned y
C28_WitnessRoot ==
  /\ phase = "running"
  /\ Len(frames) = 1
  /\ closures = <<>>
  /\ N_y \in DOMAIN global

\* a function body read y from the ambient environment
C28_WitnessLoad ==
  /\ C28_Witness
  /\ CodeAt(Frame.pieceOfCode - 1) = LOAD
  /\ Frame.stack # <<>>
  /\ Last(Frame.stack) = global[N_y]

\* y was read and is nowhere
C28_WitnessRaises ==
  /\ phase = "error"
  /\ Len(frames) >= 2
  /\ Code = LOAD
  /\ Last(Frame.stack) = Str(N_y)
  /\ N_y \notin DOMAIN global

(***************************************************************************)
(* C29  After lowering any statement, in particular any SwitchStatement,   *)
(* the compiler's control-block stack has the same length and content as   *)
(* before that statement was lowered; it is therefore empty between blocks *)
(* and never grows across successive or nested switches.  compile() starts *)
(* from an empty stack, so after a compile that raised nothing the stack   *)
(* is empty.                                                               *)
(***************************************************************************)
C29_ControlBlockStack ==
  phase \notin {"source", "error"} /\ ~compiler.thrown =>
    compiler.controlBlockStack = <<>>

(***************************************************************************)
(* C30  A SequenceExpression with n >= 1 sub-expressions lowers each in    *)
(* order and emits a POP after every sub-expression except the last, so    *)
(* that exactly the last value remains on the stack; this holds for every  *)
(* n and independently of how compileExpression was called.  For the       *)
(* expression `k, m` under study: when the root frame has run its code,    *)
(* the stack holds what it held before the expression and the value of m   *)
(* on top.                                                                 *)
(***************************************************************************)
C30_SequenceLeavesLast ==
  /\ phase # "source"
  /\ Studied.type = "SequenceExpression"
  /\ RootAt(StudiedEnd)
  => Frame.stack = (IF Nested THEN <<Num(7)>> ELSE <<>>)
                     \o <<LastOf(Studied.expressions).value>>

(***************************************************************************)
(* C31  In a ForStatement the init runs once, then the body, then the      *)
(* update, then the test, in that order: the test is first evaluated only  *)
(* after one execution of body and update, the loop jumps back to `start`  *)
(* while the test is truthy (unconditionally when there is no test), and   *)
(* `continue` jumps to the `update` label so the update and the test still *)
(* run.  On the loops of Fors(k), whose body adds 1 to r (0 before): after *)
(* `for (x = k; x < 2; ++x) body` the body has run once and then once more *)
(* for every x < 2 the update produced, also when the body continues       *)
(* before `r = r + 10`; `for (x = k; ; ++x)` leaves only by its break, the *)
(* first time x is truthy; `for (; x < 7 + k; )` runs its body until x is  *)
(* 7 + k.                                                                  *)
(***************************************************************************)
UsesFor(n) == \E k \in 0..MaxLit : source = Fors(k)[n]

\* the literal the init assigns to x
ForFrom == Subject.init.right.value.v[1]

BoundTo(name, n) ==
  /\ Str(name) \in DOMAIN scopes[1].content
  /\ scopes[1].content[Str(name)] = Num(n)

C31_ForOrder ==
  phase # "source" /\ RootAt(SubjectEnd) =>
    /\ UsesFor(1) \/ UsesFor(3) =>
         /\ BoundTo(N_r, IF ForFrom < 2 THEN 2 - ForFrom ELSE 1)
         /\ BoundTo(N_x, IF ForFrom < 2 THEN 2 ELSE ForFrom + 1)
         /\ Frame.stack = <<>>
    /\ UsesFor(2) =>
         /\ BoundTo(N_r, IF ForFrom = 0 THEN 2 ELSE 1)
         /\ BoundTo(N_x, IF ForFrom = 0 THEN 1 ELSE ForFrom)
         /\ Frame.stack = <<>>
    /\ UsesFor(4) =>
         /\ BoundTo(N_x, Subject.test.right.value.v[1])
         /\ BoundTo(N_r, Subject.test.right.value.v[1] - 5)
         /\ Frame.stack = <<>>

\* the loop with a continue has gone round twice and ended
C31_Witness ==
  /\ UsesFor(3) /\ RootAt(SubjectEnd)
  /\ BoundTo(N_r, 2) /\ BoundTo(N_x, 2)

\* the loop without a test was left by its break after two rounds
C31_WitnessNoTest ==
  /\ UsesFor(2) /\ RootAt(SubjectEnd)
  /\ BoundTo(N_r, 2) /\ BoundTo(N_x, 1)

(***************************************************************************)
(* C32  String literal round trip: for every string s that contains no     *)
(* U+0000 code unit, writeString(s) emits STR followed by 2 bytes per      *)
(* UTF-16 code unit of s (high byte first) and two zero bytes, and the     *)
(* VM's STR executed on those bytes pushes exactly s and leaves the        *)
(* program counter on the byte after the terminator.  On the literals of   *)
(* Strings(k), each the last statement of its program: the bytes from the  *)
(* literal's STR are those of s, and the step that dispatches this STR     *)
(* pushes s and moves past 2 * Len(s) + 2 bytes.                           *)
(***************************************************************************)
UsesStrings == \E k \in 0..MaxLit : \E n \in 1..Len(Strings(k)) : source = Strings(k)[n]

\* in the assembled code, STR, the code units of str high byte first, 0, 0
\* lie from address p
HoldsString(p, str) ==
  /\ CodeAt(p) = STR
  /\ \A i \in 1..Len(str) : /\ CodeAt(p + 2 * i - 1) = str[i] \div 256
                            /\ CodeAt(p + 2 * i) = str[i] % 256
  /\ CodeAt(p + 2 * Len(str) + 1) = 0
  /\ CodeAt(p + 2 * Len(str) + 2) = 0

\* the literal's STR is the last STR of the root block: POP and RET follow
\* its data
LiteralAt == 
  CHOOSE i \in 1..Len(compiler.instructions) :
    /\ IsOp(compiler.instructions[i], STR)
    /\ i < RootRet
    /\ \A j \in (i + 1)..RootRet : ~IsOp(compiler.instructions[j], STR)

StringRoundTrip ==
  UsesStrings /\ phase \in {"assembled", "running"} =>
    LET str == Subject.expression.value.v
        p == BytesBefore(LiteralAt)
    IN  /\ HoldsString(p, str)
        /\ RootAt(p) =>
             /\ frames'[1].stack = Append(Frame.stack, Str(str))
             /\ frames'[1].pieceOfCode = p + 1 + 2 * Len(str) + 2

C32_StringRoundTrip == [][StringRoundTrip]_vars

(***************************************************************************)
(* C33  Within one compilation every label name is defined at most once:   *)
(* after clear(), UniqueId.get() returns the lowercase-hex values 1, 2, 3, *)
(* ... in strictly increasing order, the counter is shared by the pre-pass *)
(* and the lowerer, and no two `label` instructions in the instruction     *)
(* buffer carry the same name.                                             *)
(***************************************************************************)
C33_LabelsDefinedOnce ==
  phase # "source" =>
    \A i, j \in 1..Len(compiler.instructions) :
      /\ compiler.instructions[i].type = "label"
      /\ compiler.instructions[j].type = "label"
      /\ compiler.instructions[i].name = compiler.instructions[j].name
      => i = j

(***************************************************************************)
(* C34  The pre-pass returns the script root as the first block followed   *)
(* by every function declaration and function expression in pre-order,     *)
(* each exactly once; every `var` name and every function-declaration name *)
(* is added to the declarations set of the innermost enclosing block       *)
(* (function or script root) only, never to an outer or an inner block; a  *)
(* labeled, throw, try or for-in node aborts the pass with an error and no *)
(* blocks are returned.  On the program of Nests(k) the blocks are the     *)
(* root, f, g, h and the anonymous function, with the declarations         *)
(* {x, o, r, f, j}, {b, g, e, d}, {c}, {d}, {b}; on the programs of        *)
(* Unsupported(k) the pass raises and compile() emits nothing.             *)
(***************************************************************************)
UsesNests == \E k \in 0..MaxLit : source = Nests(k)[1]

UsesUnsupported ==
  \E k \in 0..MaxLit : \E n \in 1..Len(Unsupported(k)) : source = Unsupported(k)[n]

Elements(seq) == {seq[i] : i \in 1..Len(seq)}

\* the name of a block: the empty string for the root and for a function
\* expression without a name
BlockName(block) ==
  IF block.type = "Program" \/ block.id.type = "Absent" THEN <<>>
  ELSE block.id.name

C34_PrePass ==
  /\ UsesNests /\ phase # "source" =>
       /\ [i \in 1..Len(Blocks) |-> <<Blocks[i].type, BlockName(Blocks[i])>>] =
            <<<<"Program", <<>>>>, <<"FunctionDeclaration", N_f>>,
              <<"FunctionDeclaration", N_g>>, <<"FunctionExpression", N_h>>,
              <<"FunctionExpression", <<>>>>>>
       /\ [i \in 1..Len(Blocks) |-> Elements(Blocks[i].declarations)] =
            <<{N_x, N_o, N_r, N_f, N_j}, {N_b, N_g, N_e, N_d}, {N_c}, {N_d},
              {N_b}>>
       /\ \A i \in 1..Len(Blocks) :
            Len(Blocks[i].declarations) = Cardinality(Elements(Blocks[i].declarations))
       /\ phase # "error"
  /\ UsesUnsupported /\ phase # "source" =>
       /\ parse(source, clear).thrown
       /\ phase = "error"
       /\ compiler.instructions = <<>>
       /\ codes = <<>>

\* compile() has lowered the five blocks of the nested program
C34_Witness ==
  /\ UsesNests /\ phase = "compiled"
  /\ Len(Blocks) = 5
  /\ \E i \in 1..Len(compiler.instructions) :
       /\ compiler.instructions[i].type = "label"
       /\ compiler.instructions[i].name = Blocks[5].label

\* compile() has raised on a for-in inside a function expression
C34_WitnessRaises ==
  /\ UsesUnsupported /\ phase = "error"
  /\ Subject.type = "ExpressionStatement"

(***************************************************************************)
(* C35  The script-root block is always the first block compiled, so its   *)
(* label resolves to byte offset 0 and a VM started with the default       *)
(* program counter 0 begins at the script root; every block ends with RET, *)
(* so execution never falls through from one block's code into the next    *)
(* block's code.  A frame falls through when a step that is no jump, call  *)
(* or return takes its program counter from the bytes of one block to the  *)
(* bytes of another.                                                       *)
(***************************************************************************)
\* the label instruction that opens block i
BlockLabelAt(i) ==
  LET defs == Definitions(Blocks[i].label)
  IN  CHOOSE d \in defs : \A e \in defs : e <= d

\* the first instruction after block i
BlockEndAt(i) ==
  IF i = Len(Blocks) THEN Len(compiler.instructions) + 1 ELSE BlockLabelAt(i + 1)

\* the block whose bytes hold address pc (0: none)
BlockOf(pc) ==
  LET in == {i \in 1..Len(Blocks) :
               /\ OffsetOf(compiler.instructions, BlockLabelAt(i)) <= pc
               /\ pc < OffsetOf(compiler.instructions, BlockEndAt(i))}
  IN  IF in = {} THEN 0 ELSE CHOOSE i \in in : TRUE

RootFirst ==
  /\ Blocks[1].type = "Program"
  /\ compiler.instructions[1] = [type |-> "label", name |-> Blocks[1].label]
  /\ BytesBefore(BlockLabelAt(1)) = 0
  /\ frames' = <<[scope |-> 1, pieceOfCode |-> 0, stack |-> <<>>]>>

BlocksEndWithRet ==
  \A i \in 1..Len(Blocks) : IsOp(compiler.instructions[BlockEndAt(i) - 1], RET)

StaysInBlock ==
  /\ phase' = "running"
  /\ Len(frames') = Len(frames)
  /\ Code \notin {JUMP, JUMPIF, JUMPNOT}
  => BlockOf(frames'[Len(frames)].pieceOfCode) = BlockOf(Frame.pieceOfCode)

C35_BlocksClosed ==
  [][/\ phase = "assembled" => RootFirst /\ BlocksEndWithRet
     /\ phase = "running" => StaysInBlock]_vars

\* the root block of a program with further blocks has run to its RET
C35_Witness ==
  /\ phase = "running" /\ Len(frames) = 1
  /\ Len(Blocks) >= 2
  /\ Code = RET
  /\ Frame.pieceOfCode + 1 = OffsetOf(compiler.instructions, BlockLabelAt(2))

(***************************************************************************)
(* C36  After a function's prologue has run, every parameter holds the     *)
(* corresponding argument value even when the function body also declares  *)
(* a `var` or a nested function declaration with the same name as that     *)
(* parameter: declaring the hoisted locals does not reset a name that is   *)
(* already bound in the invocation scope.  Stated for the invocations of   *)
(* Redeclares(k), when the callee is about to dispatch the first           *)
(* instruction of the lowering of its body.                                *)
(***************************************************************************)
Redeclared(n) == \E k \in 0..MaxLit : source = Redeclares(k)[n]

ParametersHold ==
  \A i \in 1..Len(CalleeBlock.params) :
    /\ Str(CalleeBlock.params[i].name) \in DOMAIN scopes[Frame.scope].content
    /\ scopes[Frame.scope].content[Str(CalleeBlock.params[i].name)]
         = Invocation.arguments[i].value

C36_ParametersKept ==
  (\E n \in 1..3 : Redeclared(n)) /\ AtBody => ParametersHold

(***************************************************************************)
(* C37  A function declaration's name is bound to undefined from block     *)
(* entry and becomes bound to the closure only when control reaches the    *)
(* declaration statement in source order (`NULL; NUM n; ADDR label; FUNC;  *)
(* STR name; OUT; POP` emitted in place); a call placed textually before   *)
(* the declaration therefore does not see the function value.  On the      *)
(* programs of Early(k): with the declaration of f last in the script, f   *)
(* is undefined from the first body instruction until the OUT of the       *)
(* declaration and the closure of f's block after it; `typeof f` before it *)
(* is "undefined" and `f(k)` before it raises; inside h, `typeof g` is     *)
(* "undefined" before the declaration of g and "function" after it.        *)
(***************************************************************************)
UsesEarly(n) == \E k \in 0..MaxLit : source = Early(k)[n]

S_function == <<102, 117, 110, 99, 116, 105, 111, 110>>

\* the declaration is the last statement of the script: its instructions
\* are the ten before the root's RET, the seven opcodes with their operands
DeclarationIns(i) == compiler.instructions[RootRet - 11 + i]

DeclarationStart == OffsetOf(compiler.instructions, RootRet - 10)

DeclaredInPlace ==
  /\ IsOp(DeclarationIns(1), NULL)
  /\ IsOp(DeclarationIns(2), NUM)
  /\ DeclarationIns(3) = [type |-> "data", data |-> Float64Bytes(Len(Subject.params))]
  /\ IsOp(DeclarationIns(4), ADDR)
  /\ DeclarationIns(5) = [type |-> "reference", label |-> Blocks[2].label]
  /\ IsOp(DeclarationIns(6), FUNC)
  /\ IsOp(DeclarationIns(7), STR)
  /\ DeclarationIns(8) = [type |-> "data", data |-> StringBytes(Subject.id.name)]
  /\ IsOp(DeclarationIns(9), OUT)
  /\ IsOp(DeclarationIns(10), POP)
  /\ \A i \in 1..(RootRet - 11) : ~IsOp(compiler.instructions[i], FUNC)

BoundLate ==
  LET f == Str(Subject.id.name)
  IN  /\ DeclaredInPlace
      /\ (/\ phase = "running" /\ Len(frames) = 1
          /\ BodyStart(Blocks[1]) <= Frame.pieceOfCode
          /\ Frame.pieceOfCode <= SubjectEnd - 2) =>
           /\ f \in DOMAIN scopes[1].content
           /\ scopes[1].content[f] = Undefined
      /\ RootAt(SubjectEnd) =>
           /\ scopes[1].content[f].t = "function"
           /\ closures[scopes[1].content[f].v[1]].addr
                = Num(BytesBefore(BlockLabelAt(2)))

C37_DeclarationInPlace ==
  phase # "source" =>
    /\ UsesEarly(1) =>
         /\ BoundLate
         /\ RootAt(DeclarationStart) =>
              scopes[1].content[Str(N_r)] = Str(S_undefined)
    /\ UsesEarly(2) =>
         /\ BoundLate
         /\ phase # "done"
         /\ ~RootAt(DeclarationStart)
         /\ phase = "error" => Code = CALL /\ Len(frames) = 1
    /\ UsesEarly(3) /\ RootAt(SubjectEnd) =>
         /\ scopes[1].content[Str(N_r)] = Str(S_undefined)
         /\ scopes[1].content[Str(N_x)] = Str(S_function)

\* the declaration statement has just bound f, which was read as undefined
C37_Witness ==
  /\ UsesEarly(1) /\ RootAt(SubjectEnd)
  /\ scopes[1].content[Str(N_r)] = Str(S_undefined)
  /\ scopes[1].content[Str(N_f)].t = "function"

\* the call before the declaration has raised
C37_WitnessCall ==
  UsesEarly(2) /\ phase = "error" /\ Code = CALL

\* inside h, g was read before and after its declaration
C37_WitnessNested ==
  UsesEarly(3) /\ RootAt(SubjectEnd)

(***************************************************************************)
(* One Compiler used three times: a source is compiled and assembled, then *)
(* any other source is compiled, then the first source is compiled and     *)
(* assembled again.  frames keeps the first call (its source and the bytes *)
(* toNumberArray returned), phase tells which call was made last, steps    *)
(* counts the calls.  A call that raised an exception returns no bytes.    *)
(***************************************************************************)
\* the sources: the loops and switches over one literal, a program the
\* pre-pass rejects and a for loop
Recompiled ==
  {Program(<<>>, Statements(k, k)[n]) : k \in 0..MaxLit, n \in 4..8}
  \cup {Unsupported(0)[1], Fors(0)[1]}

\* one call of compile(program) and toNumberArray() on the instance
CompileOn ==
  \E program \in Recompiled :
    /\ phase \in {"instance", "first", "other"}
    /\ phase = "other" => program = frames[1].source
    /\ source' = program
    /\ compiler' = compileOn(compiler, program)
    /\ codes' = IF compiler'.thrown THEN <<>>
                ELSE toNumberArray(compiler'.instructions)
    /\ steps' = steps + 1
    /\ \/ /\ phase = "instance"
          /\ phase' = "first"
          /\ frames' = <<[source |-> program, codes |-> codes']>>
       \/ /\ phase = "first"
          /\ phase' = "other"
          /\ UNCHANGED frames
       \/ /\ phase = "other"
          /\ phase' = "again"
          /\ UNCHANGED frames
    /\ UNCHANGED <<scopes, global, heap, closures, result>>

RecompileInit ==
  /\ source = <<>>
  /\ phase = "instance"
  /\ compiler = clear
  /\ codes = <<>>
  /\ frames = <<>>
  /\ scopes = <<>>
  /\ global = <<>>
  /\ heap = <<>>
  /\ closures = <<>>
  /\ result = Undefined
  /\ steps = 0

RecompileNext == CompileOn

RecompileSpec == RecompileInit /\ [][RecompileNext]_vars

(***************************************************************************)
(* C38  compile(source) followed by toNumberArray() does not depend on     *)
(* what the same Compiler compiled before: when a source is compiled and   *)
(* assembled, then any other source is compiled (one with a switch         *)
(* statement, which leaves an entry on the control-block stack, or one     *)
(* that raised an exception, included), then the first source is compiled  *)
(* and assembled again, the second byte sequence is the first one, and the *)
(* instance is left as a new Compiler would be.                            *)
(***************************************************************************)
C38_CompileIndependent ==
  phase = "again" =>
    /\ source = frames[1].source
    /\ codes = frames[1].codes
    /\ compiler = compile(source)

\* a switch was lowered in between and left its entry on the stack
C38_Witness ==
  /\ phase = "again"
  /\ ~compiler.thrown
  /\ codes # <<>>
  /\ source.body[Len(source.body)].type = "WhileStatement"

C38_WitnessAfterSwitch ==
  /\ phase = "other"
  /\ source.body[Len(source.body)].type = "SwitchStatement"
  /\ compiler.controlBlockStack # <<>>
  /\ compiler.nextId > 1
  /\ frames[1].source # source

C38_WitnessAfterRaise ==
  /\ phase = "other"
  /\ compiler.thrown
  /\ frames[1].codes # <<>>

(***************************************************************************)
(* C39  When no case test is strictly equal to the discriminant and the    *)
(* switch has no default clause, none of the case bodies runs and control  *)
(* continues after the switch with the discriminant removed from the       *)
(* operand stack.  The body at position j adds 10^(j-1) to r, which is 0   *)
(* before the switch; after the switch r is still 0 and the root frame's   *)
(* stack is empty.                                                         *)
(***************************************************************************)
NoClauseToEnter ==
  /\ phase # "source"
  /\ Subject.type = "SwitchStatement"
  /\ \A j \in 1..Len(Subject.cases) :
       /\ Subject.cases[j].test.type # "Absent"
       /\ ~StrictEquals(Subject.cases[j].test.value,
                        Subject.discriminant.value)

C39_SwitchNoMatch ==
  (NoClauseToEnter /\ RootAt(SubjectEnd)) =>
    /\ scopes[1].content[Str(N_r)] = Num(0)
    /\ Frame.stack = <<>>

====
